---------------------------- MODULE Spec2Model ----------------------------
(***************************************************************************)
(* A model of the pacman contest judge (pacman-core, pacman-server):       *)
(*   - the rate limiter            (pacman-core/src/rate_limiter.rs)       *)
(*   - the evaluator               (pacman-core/src/evaluator.rs)          *)
(*   - the scoreboard              (pacman-core/src/scoreboard.rs)         *)
(*   - the game registry           (pacman-core/src/lib.rs)                *)
(*   - the handlers and their lock (pacman-server/src/main.rs)             *)
(*                                                                         *)
(* Seven specifications share the module:                                  *)
(*   SpecLimiter  one RateLimiter driven by arbitrary submit calls         *)
(*   SpecEval     one run of evaluate_program, one phase per step          *)
(*   Spec         the registry behind its lock, one handler per step       *)
(*   SpecViews    the ranked views of a scoreboard                         *)
(*   SpecScores   the registry's API and the history of its calls          *)
(*   SpecServer   concurrent handlers, one step per statement under lock   *)
(*   SpecPoison   SpecServer with all eight handlers that take the lock    *)
(* Timestamps (DateTime<Utc>) and durations are integers (seconds).        *)
(***************************************************************************)
EXTENDS Integers, Sequences, FiniteSets, TLC

VARIABLES
    \* ---- SpecLimiter: a RateLimiter and the log of the calls made on it
    limiter,        \* RateLimiter { max_submissions, time_window, entries }
    calls,          \* sequence of [time, ok]: every submit call and its result
    \* ---- SpecEval: one call of evaluate_program(level, program, move_limit)
    level,          \* Level { state: { cells, objects }, ghost_program }
    program,        \* the contestant's Program { rules }
    move_limit,     \* u64
    initial_state,  \* level.state.clone()
    steps,          \* Vec<Step>
    steps_taken,    \* u64
    objects,        \* evaluator.objects: Vec<ObjectInfo>
    berry_taken,    \* prepare_moves' local is_berry_taken (line 123)
    outcome,        \* the Outcome the loop broke with; "None" while it runs
    pc,             \* where evaluate_program stands
    \* ---- Spec: the PacmanGame registry (lib.rs) behind the server's Mutex
    global_scores,  \* Scoreboard: user -> UserScore
    level_scores,   \* Scoreboard: user -> UserScore
    current_level,  \* contract::Level
    limiters,       \* HashMap<String, RateLimiter>
    is_level_closed,
    config,         \* GameConfig { max_steps, rate_limit: { count, window } }
    level_start,    \* DateTime<Utc>
    submissions,    \* Vec<UserSubmission { user, details }>
    poisoned,       \* the Mutex around the registry is poisoned
    clock,          \* the last value chrono::Utc::now() returned
    response,       \* what the last handler returned
    scoreboards,    \* contract::Scoreboards: the views the last scoreboard
                    \* request returned, << >> before the first
    history,        \* the calls made on the registry since it was built
    \* ---- SpecServer: the worker threads of the server and its Mutex
    threads,        \* worker -> the handler it runs and the handler's locals
    lock            \* the worker holding the MutexGuard, 0 when it is free

limVars == <<limiter, calls>>
evalVars == <<level, program, move_limit, initial_state, steps, steps_taken,
              objects, berry_taken, outcome, pc>>

gameVars == <<global_scores, level_scores, current_level, limiters,
              is_level_closed, config, level_start, submissions>>
regVars == <<global_scores, level_scores, current_level, limiters,
             is_level_closed, config, level_start, submissions,
             poisoned, clock, response,
            scoreboards, history>>

srvVars == <<threads, lock>>

vars == <<limiter, calls, level, program, move_limit, initial_state, steps,
          steps_taken, objects, berry_taken, outcome, pc,
          global_scores, level_scores, current_level, limiters,
          is_level_closed, config, level_start, submissions,
          poisoned, clock, response,
          scoreboards, history, threads, lock>>

(***************************************************************************)
(* Bounds of the model                                                     *)
(***************************************************************************)
\* largest max_submissions a limiter of SpecLimiter is constructed with
MaxCount == 2
\* number of submit calls made on the limiter of SpecLimiter
MaxCalls == 5

\* most objects a level of SpecEval holds
MaxObjects == 3
\* largest move_limit evaluate_program is called with in SpecEval
MaxMoveLimit == 5
\* Spec: the longest submission list, the latest clock reading, and the
\* most levels a user has solved in the global scoreboard
MaxSubmissions == 2
MaxClock == 1
MaxSolved == 1

\* the timestamps submit is called with: both sides of t_min + window for
\* the windows below, and the sequence 0, 1, 2, 12, 13 of the rate-limit test
Times == {0, 1, 2, 11, 12, 13}
\* the windows a limiter is constructed with
Windows == {0, 1, 10}

(***************************************************************************)
(* rate_limiter.rs                                                         *)
(***************************************************************************)
\* the assertion left out: any count constructs a limiter
NewAssertsNothing(max_submissions) == max_submissions >= 0

\* RateLimiter::new panics on this assertion (rate_limiter.rs:13)
RateLimiter_new_asserts(max_submissions) == max_submissions > 0

RateLimiter_new(max_submissions, time_window) ==
    [max_submissions |-> max_submissions,
     time_window     |-> time_window,
     entries         |-> << >>]

\* self.entries.iter().enumerate().min_by_key(|item| item.1): the index of
\* the least entry; of several equal least entries, the first.
\* 0 stands for None (no entry).
OldestIndex(entries) ==
    IF entries = << >> THEN 0
    ELSE CHOOSE i \in 1..Len(entries) :
            /\ \A j \in 1..Len(entries) : entries[i] <= entries[j]
            /\ \A j \in 1..(i - 1) : entries[j] # entries[i]

\* submit with the window test `<=` in place of `<`
SubmitStrictLate(l, time) ==
    IF Len(l.entries) < l.max_submissions
    THEN [limiter |-> [l EXCEPT !.entries = Append(l.entries, time)], ok |-> TRUE]
    ELSE LET index == OldestIndex(l.entries) IN
         IF index # 0
         THEN IF l.entries[index] + l.time_window <= time
              THEN [limiter |-> [l EXCEPT !.entries[index] = time], ok |-> TRUE]
              ELSE [limiter |-> l, ok |-> FALSE]
         ELSE [limiter |-> [l EXCEPT !.entries = Append(l.entries, time)], ok |-> TRUE]

\* submit with the capacity test `<=` in place of `<`
SubmitOverCapacity(l, time) ==
    IF Len(l.entries) <= l.max_submissions
    THEN [limiter |-> [l EXCEPT !.entries = Append(l.entries, time)], ok |-> TRUE]
    ELSE LET index == OldestIndex(l.entries) IN
         IF index # 0
         THEN IF l.entries[index] + l.time_window < time
              THEN [limiter |-> [l EXCEPT !.entries[index] = time], ok |-> TRUE]
              ELSE [limiter |-> l, ok |-> FALSE]
         ELSE [limiter |-> [l EXCEPT !.entries = Append(l.entries, time)], ok |-> TRUE]

\* submit recording the time of a call it turns down
SubmitRecordsRejected(l, time) ==
    IF Len(l.entries) < l.max_submissions
    THEN [limiter |-> [l EXCEPT !.entries = Append(l.entries, time)], ok |-> TRUE]
    ELSE LET index == OldestIndex(l.entries) IN
         IF index # 0
         THEN [limiter |-> [l EXCEPT !.entries[index] = time],
               ok |-> l.entries[index] + l.time_window < time]
         ELSE [limiter |-> [l EXCEPT !.entries = Append(l.entries, time)], ok |-> TRUE]

\* RateLimiter::submit: the limiter after the call and whether it returned Ok
RateLimiter_submit(l, time) ==
    IF Len(l.entries) < l.max_submissions
    THEN [limiter |-> [l EXCEPT !.entries = Append(l.entries, time)], ok |-> TRUE]
    ELSE LET index == OldestIndex(l.entries) IN
         IF index # 0
         THEN IF l.entries[index] + l.time_window < time
              THEN [limiter |-> [l EXCEPT !.entries[index] = time], ok |-> TRUE]
              ELSE [limiter |-> l, ok |-> FALSE]
         ELSE [limiter |-> [l EXCEPT !.entries = Append(l.entries, time)], ok |-> TRUE]

(***************************************************************************)
(* contract.rs: the wire types the evaluator works on                      *)
(***************************************************************************)
RuleStates == {"A", "B", "C", "D", "E", "F", "G", "H"}
RuleCells == {"Wall", "Empty", "Ghost", "Berry", "Pacman"}
Moves == {"Up", "Down", "Left", "Right", "Wait"}
Outcomes == {"Success", "Fail", "OutOfMoves"}

\* #[derive(PartialOrd, Ord)] enum ObjectKind { Berry, Ghost, Pacman }:
\* the derived order is the order of declaration
KindRank(kind) ==
    CASE kind = "Berry" -> 0
      [] kind = "Ghost" -> 1
      [] kind = "Pacman" -> 2

\* a Rule; an absent Option is "None"
Rule(current_state, up, down, left, right, berry, next_move, next_state) ==
    [current_state |-> current_state, up |-> up, down |-> down, left |-> left,
     right |-> right, berry |-> berry, next_move |-> next_move,
     next_state |-> next_state]

\* an Object of a level, as the level's author writes it: alive and waiting
Object(id, kind, row, col) ==
    [id |-> id, row |-> row, col |-> col, current_move |-> "Wait",
     intended_move |-> "Wait", state |-> "Alive", kind |-> kind]

(***************************************************************************)
(* evaluator.rs                                                            *)
(***************************************************************************)
\* usize::MAX. usize is 64 bits wide; the model checker's integers are 32
\* bits wide, so the model's usize ends at the largest of them. Every grid
\* of the model is far smaller than either.
UsizeMax == 2147483647

\* usize::wrapping_sub(1), usize::wrapping_add(1)
WrappingSub1(x) == IF x = 0 THEN UsizeMax ELSE x - 1
WrappingAdd1(x) == IF x = UsizeMax THEN 0 ELSE x + 1

\* the grid read with the cells outside it taken for Empty
StaticCellOpenBorder(cells, row, col) ==
    IF row < Len(cells) /\ col < Len(cells[row + 1])
    THEN cells[row + 1][col + 1]
    ELSE "Empty"

\* cells.get(row).and_then(|r| r.get(col)).cloned().unwrap_or(Cell::Wall);
\* Rust indexes from 0, TLA+ sequences from 1
StaticCell(cells, row, col) ==
    IF row < Len(cells) /\ col < Len(cells[row + 1])
    THEN cells[row + 1][col + 1]
    ELSE "Wall"

\* evaluate_program, lines 28-36: the evaluator's ObjectInfo list
InitialObjects(level_objects) ==
    [i \in 1..Len(level_objects) |->
        [obj |-> level_objects[i], state |-> "A",
         next_row |-> level_objects[i].row, next_col |-> level_objects[i].col]]

\* ObjectInfo::pos, ObjectInfo::next_pos
pos(o) == <<o.obj.row, o.obj.col>>
next_pos(o) == <<o.next_row, o.next_col>>

\* a Step taken after the commit: every object at its next position
GetStepAfterCommit(objs) ==
    [objects |-> [i \in 1..Len(objs) |->
                    [objs[i].obj EXCEPT !.row = objs[i].next_row,
                                        !.col = objs[i].next_col]]]

\* Evaluator::get_step
get_step(objs) == [objects |-> [i \in 1..Len(objs) |-> objs[i].obj]]

\* a cleanup that keeps the list and appends the survivors to it
CleanupAppendsSurvivors(objs) ==
    objs \o SelectSeq(objs, LAMBDA o : o.obj.state = "Alive")

\* Evaluator::cleanup_objects: Vec::retain keeps the order
cleanup_objects(objs) == SelectSeq(objs, LAMBDA o : o.obj.state = "Alive")

\* Evaluator::is_berry_taken
is_berry_taken(objs) == \A i \in 1..Len(objs) : objs[i].obj.kind # "Berry"

\* is_defeat counting only the Pac-Men still Alive
DefeatAmongAlive(objs) ==
    \A i \in 1..Len(objs) :
       objs[i].obj.kind # "Pacman" \/ objs[i].obj.state # "Alive"

\* is_victory counting only the objects still Alive
VictoryAmongAlive(objs) ==
    LET alive == SelectSeq(objs, LAMBDA o : o.obj.state = "Alive")
    IN  Len(alive) = 1 /\ alive[1].obj.kind = "Pacman"
\* Evaluator::is_victory, is_defeat
is_victory(objs) == Len(objs) = 1 /\ objs[1].obj.kind = "Pacman"
is_defeat(objs) == \A i \in 1..Len(objs) : objs[i].obj.kind # "Pacman"

\* Evaluator::can_pass
can_pass(cells, row, col) == StaticCell(cells, row, col) = "Empty"

\* a get_cell that reports the first object of the list standing on the cell
GetCellFirstObject(objs, cells, row, col) ==
    LET here == {i \in 1..Len(objs) :
                    objs[i].obj.row = row /\ objs[i].obj.col = col}
    IN  IF here # {}
        THEN objs[CHOOSE i \in here : \A j \in here : i <= j].obj.kind
        ELSE StaticCell(cells, row, col)

\* Evaluator::get_cell: the greatest kind among the objs standing on
\* (row, col), else the grid's cell
get_cell(objs, cells, row, col) ==
    LET here == {i \in 1..Len(objs) :
                    objs[i].obj.row = row /\ objs[i].obj.col = col}
    IN  IF here # {}
        THEN LET top == CHOOSE i \in here :
                            \A j \in here : KindRank(objs[j].obj.kind)
                                              <= KindRank(objs[i].obj.kind)
             IN  objs[top].obj.kind
        ELSE StaticCell(cells, row, col)

\* a rule tested without its current_state filter
RuleMatchesInAnyState(objs, cells, rule, state, row, col) ==
    /\ rule.up # "None" => rule.up = get_cell(objs, cells, WrappingSub1(row), col)
    /\ rule.down # "None" => rule.down = get_cell(objs, cells, WrappingAdd1(row), col)
    /\ rule.left # "None" => rule.left = get_cell(objs, cells, row, WrappingSub1(col))
    /\ rule.right # "None" => rule.right = get_cell(objs, cells, row, WrappingAdd1(col))
    /\ rule.berry = "Taken" => is_berry_taken(objs)
    /\ rule.berry = "NotTaken" => ~is_berry_taken(objs)

\* one rule of pick_move's loop: TRUE when no filter makes it `continue`
RuleMatches(objs, cells, rule, state, row, col) ==
    /\ rule.current_state # "None" => rule.current_state = state
    /\ rule.up # "None" => rule.up = get_cell(objs, cells, WrappingSub1(row), col)
    /\ rule.down # "None" => rule.down = get_cell(objs, cells, WrappingAdd1(row), col)
    /\ rule.left # "None" => rule.left = get_cell(objs, cells, row, WrappingSub1(col))
    /\ rule.right # "None" => rule.right = get_cell(objs, cells, row, WrappingAdd1(col))
    /\ rule.berry = "Taken" => is_berry_taken(objs)
    /\ rule.berry = "NotTaken" => ~is_berry_taken(objs)

\* Evaluator::pick_move: the action of the first rule that matches, from
\* rule k on; <<state, Wait>> when none does
RECURSIVE PickFrom(_, _, _, _, _, _, _)
PickFrom(objs, cells, prog, k, state, row, col) ==
    IF k > Len(prog.rules) THEN <<state, "Wait">>
    ELSE IF RuleMatches(objs, cells, prog.rules[k], state, row, col)
         THEN <<prog.rules[k].next_state, prog.rules[k].next_move>>
         ELSE PickFrom(objs, cells, prog, k + 1, state, row, col)

pick_move(objs, cells, prog, state, row, col) ==
    PickFrom(objs, cells, prog, 1, state, row, col)

\* Evaluator::next_pos(&ObjectInfo): <<blocked, row, col>>
target_pos(cells, o) ==
    LET row == o.obj.row
        col == o.obj.col
        new == CASE o.obj.current_move = "Up" -> <<WrappingSub1(row), col>>
                 [] o.obj.current_move = "Down" -> <<WrappingAdd1(row), col>>
                 [] o.obj.current_move = "Left" -> <<row, WrappingSub1(col)>>
                 [] o.obj.current_move = "Right" -> <<row, WrappingAdd1(col)>>
                 [] o.obj.current_move = "Wait" -> <<row, col>>
    IN  IF can_pass(cells, new[1], new[2])
        THEN <<FALSE, new[1], new[2]>>
        ELSE <<TRUE, row, col>>

\* the first loop's body with intended_move overwritten when the move is
\* blocked
SelectMoveForgetsIntent(objs, cells, pacman_program, ghost_program, i) ==
    LET o == objs[i] IN
    IF o.obj.kind = "Berry"
    THEN [objs EXCEPT ![i].obj.current_move = "Wait"]
    ELSE LET prog == IF o.obj.kind = "Pacman" THEN pacman_program ELSE ghost_program
             picked == pick_move(objs, cells, prog, o.state, o.obj.row, o.obj.col)
             moved == [o EXCEPT !.state = picked[1],
                                !.obj.current_move = picked[2],
                                !.obj.intended_move = picked[2]]
             np == target_pos(cells, moved)
         IN  [objs EXCEPT ![i] =
                [moved EXCEPT !.next_row = np[2],
                              !.next_col = np[3],
                              !.obj.current_move =
                                    IF np[1] THEN "Wait" ELSE moved.obj.current_move,
                              !.obj.intended_move =
                                    IF np[1] THEN "Wait" ELSE moved.obj.intended_move]]

\* prepare_moves, lines 101-121: the body of the first loop for object i,
\* on the list as the earlier iterations left it
SelectMove(objs, cells, pacman_program, ghost_program, i) ==
    LET o == objs[i] IN
    IF o.obj.kind = "Berry"
    THEN [objs EXCEPT ![i].obj.current_move = "Wait"]
    ELSE LET prog == IF o.obj.kind = "Pacman" THEN pacman_program ELSE ghost_program
             picked == pick_move(objs, cells, prog, o.state, o.obj.row, o.obj.col)
             moved == [o EXCEPT !.state = picked[1],
                                !.obj.current_move = picked[2],
                                !.obj.intended_move = picked[2]]
             np == target_pos(cells, moved)
         IN  [objs EXCEPT ![i] =
                [moved EXCEPT !.next_row = np[2],
                              !.next_col = np[3],
                              !.obj.current_move =
                                    IF np[1] THEN "Wait" ELSE moved.obj.current_move]]

\* prepare_moves, lines 100-122: the first loop, from object i on
RECURSIVE SelectMovesFrom(_, _, _, _, _)
SelectMovesFrom(objs, cells, pacman_program, ghost_program, i) ==
    IF i > Len(objs) THEN objs
    ELSE SelectMovesFrom(SelectMove(objs, cells, pacman_program, ghost_program, i),
                         cells, pacman_program, ghost_program, i + 1)

select_moves(objs, cells, pacman_program, ghost_program) ==
    SelectMovesFrom(objs, cells, pacman_program, ghost_program, 1)

\* the end-cell collision with berry_taken ignored: Pac-Man always dies
EndCellKillsPacman(objs, taken) ==
    LET n == Len(objs)
        meets(i, j) == /\ objs[i].obj.kind = "Pacman"
                       /\ objs[j].obj.kind = "Ghost"
                       /\ next_pos(objs[i]) = next_pos(objs[j])
    IN  [k \in 1..n |->
            IF \E j \in 1..n : meets(k, j)
            THEN [objs[k] EXCEPT !.obj.state = "DiesAtEnd"]
            ELSE objs[k]]

\* prepare_moves, lines 125-143: Pac-Man finished in a cell with a ghost.
\* Positions are not written by the loops, so what object k ends as depends
\* on the pairs it is part of alone.
end_cell_collisions(objs, taken) ==
    LET n == Len(objs)
        meets(i, j) == /\ objs[i].obj.kind = "Pacman"
                       /\ objs[j].obj.kind = "Ghost"
                       /\ next_pos(objs[i]) = next_pos(objs[j])
    IN  [k \in 1..n |->
            IF \/ taken /\ \E i \in 1..n : meets(i, k)
               \/ ~taken /\ \E j \in 1..n : meets(k, j)
            THEN [objs[k] EXCEPT !.obj.state = "DiesAtEnd"]
            ELSE objs[k]]

\* the swap collision with berry_taken ignored: Pac-Man always dies
SwapKillsPacman(objs, taken) ==
    LET n == Len(objs)
        swaps(i, j) == /\ objs[i].obj.kind = "Pacman"
                       /\ objs[j].obj.kind = "Ghost"
                       /\ next_pos(objs[i]) = pos(objs[j])
                       /\ pos(objs[i]) = next_pos(objs[j])
    IN  [k \in 1..n |->
            IF \E j \in 1..n : swaps(k, j)
            THEN [objs[k] EXCEPT !.obj.state = "DiesInMiddle"]
            ELSE objs[k]]

\* prepare_moves, lines 145-165: Pac-Man and a ghost walked into each other
swap_collisions(objs, taken) ==
    LET n == Len(objs)
        swaps(i, j) == /\ objs[i].obj.kind = "Pacman"
                       /\ objs[j].obj.kind = "Ghost"
                       /\ next_pos(objs[i]) = pos(objs[j])
                       /\ pos(objs[i]) = next_pos(objs[j])
    IN  [k \in 1..n |->
            IF \/ taken /\ \E i \in 1..n : swaps(i, k)
               \/ ~taken /\ \E j \in 1..n : swaps(k, j)
            THEN [objs[k] EXCEPT !.obj.state = "DiesInMiddle"]
            ELSE objs[k]]

\* berry consumption by whatever agent steps on the berry, ghosts too
BerryEatenByAnyAgent(objs) ==
    LET n == Len(objs)
        eats(i, j) == /\ objs[i].obj.kind # "Berry"
                      /\ objs[i].obj.state = "Alive"
                      /\ objs[j].obj.kind = "Berry"
                      /\ next_pos(objs[i]) = pos(objs[j])
    IN  [k \in 1..n |->
            IF \E i \in 1..n : eats(i, k)
            THEN [objs[k] EXCEPT !.obj.state = "DiesAtEnd"]
            ELSE objs[k]]

\* berry consumption without the test that Pac-Man is still Alive
BerryEatenByDying(objs) ==
    LET n == Len(objs)
        eats(i, j) == /\ objs[i].obj.kind = "Pacman"
                      /\ objs[j].obj.kind = "Berry"
                      /\ next_pos(objs[i]) = pos(objs[j])
                      /\ \A b \in 1..(j - 1) :
                            ~(objs[b].obj.kind = "Berry"
                              /\ next_pos(objs[i]) = pos(objs[b]))
    IN  [k \in 1..n |->
            IF \E i \in 1..n : eats(i, k)
            THEN [objs[k] EXCEPT !.obj.state = "DiesAtEnd"]
            ELSE objs[k]]

\* prepare_moves, lines 167-184: an alive Pac-Man eats the first berry of
\* the list that lies on its next position (`break`)
berry_consumption(objs) ==
    LET n == Len(objs)
        eats(i, j) == /\ objs[i].obj.kind = "Pacman"
                      /\ objs[i].obj.state = "Alive"
                      /\ objs[j].obj.kind = "Berry"
                      /\ next_pos(objs[i]) = pos(objs[j])
                      /\ \A b \in 1..(j - 1) :
                            ~(objs[b].obj.kind = "Berry"
                              /\ next_pos(objs[i]) = pos(objs[b]))
    IN  [k \in 1..n |->
            IF \E i \in 1..n : eats(i, k)
            THEN [objs[k] EXCEPT !.obj.state = "DiesAtEnd"]
            ELSE objs[k]]

\* Evaluator::prepare_moves
prepare_moves(objs, cells, pacman_program, ghost_program) ==
    LET moved == select_moves(objs, cells, pacman_program, ghost_program)
        snapshot == is_berry_taken(moved)
    IN  berry_consumption(
            swap_collisions(end_cell_collisions(moved, snapshot), snapshot))

\* the commit that also reaps the objects marked dying in this tick
FinishMovesReaps(objs) ==
    LET alive == SelectSeq(objs, LAMBDA o : o.obj.state = "Alive")
    IN  [i \in 1..Len(alive) |->
            [alive[i] EXCEPT !.obj.row = alive[i].next_row,
                             !.obj.col = alive[i].next_col]]

\* Evaluator::finish_moves
finish_moves(objs) ==
    [i \in 1..Len(objs) |->
        [objs[i] EXCEPT !.obj.row = objs[i].next_row,
                           !.obj.col = objs[i].next_col]]

(***************************************************************************)
(* lib.rs: empty_level(), the level of a registry before set_level         *)
(***************************************************************************)
empty_level ==
    [state |-> [cells |-> << <<"Wall">> >>, objects |-> << >>],
     ghost_program |-> [rules |-> << >>]]

(***************************************************************************)
(* The levels and programs evaluate_program is run on                      *)
(***************************************************************************)
AnyRule(next_move, next_state) ==
    Rule("None", "None", "None", "None", "None", "None", next_move, next_state)

\* Pac-Man programs
NoRules == [rules |-> << >>]
AlwaysRight == [rules |-> << AnyRule("Right", "A") >>]
\* a loop: right in state A, left in state B
Patrol == [rules |-> << Rule("A", "None", "None", "None", "None", "None", "Right", "B"),
                        Rule("B", "None", "None", "None", "None", "None", "Left", "A") >>]
\* waits while a ghost stands to the right and the berry is not taken
Careful == [rules |-> << Rule("None", "None", "None", "None", "Ghost", "NotTaken", "Wait", "A"),
                         AnyRule("Right", "A") >>]
\* down from under a wall, up otherwise
Climber == [rules |-> << Rule("None", "Wall", "None", "None", "None", "None", "Down", "A"),
                         AnyRule("Up", "A") >>]
AlwaysUp == [rules |-> << AnyRule("Up", "A") >>]
\* down while the cell below is empty, back left once the berry is taken,
\* right otherwise
Hunter == [rules |-> << Rule("None", "None", "Empty", "None", "None", "None", "Down", "A"),
                        Rule("None", "None", "None", "None", "None", "Taken", "Left", "B"),
                        AnyRule("Right", "A") >>]
Programs == {NoRules, AlwaysRight, Patrol, Careful, Climber, AlwaysUp, Hunter}

\* ghost programs
AlwaysWait == [rules |-> << AnyRule("Wait", "A") >>]
AlwaysLeft == [rules |-> << AnyRule("Left", "A") >>]
\* right from the left wall, left otherwise
Sentry == [rules |-> << Rule("None", "None", "None", "Wall", "None", "None", "Right", "A"),
                        AnyRule("Left", "A") >>]
GhostPrograms == {AlwaysWait, AlwaysLeft, Sentry}

\* grids: a 1x2 and a 1x3 corridor, and a 2x2 box with a wall
Row2 == << <<"Empty", "Empty">> >>
Row3 == << <<"Empty", "Empty", "Empty">> >>
Box == << <<"Empty", "Empty">>, <<"Empty", "Wall">> >>
Grids == {Row2, Row3, Box}

EmptyCells(cells) ==
    {rc \in (0..(Len(cells) - 1)) \X (0..(Len(cells[1]) - 1)) :
        StaticCell(cells, rc[1], rc[2]) = "Empty"}

\* the object lists of a grid: up to MaxObjects objects of any kind, each on
\* an empty cell; listed Pac-Men first, then ghosts, then berries, and by
\* cell within a kind
PlaceRank(kc) == (2 - KindRank(kc[1])) * 100 + kc[2][1] * 10 + kc[2][2]

ObjectLists(cells) ==
    LET choices == {"Pacman", "Ghost", "Berry"} \X EmptyCells(cells)
        lists == UNION {[1..n -> choices] : n \in 0..MaxObjects}
    IN  {[i \in 1..Len(l) |-> Object(i - 1, l[i][1], l[i][2][1], l[i][2][2])] :
            l \in {l \in lists : \A i \in 1..(Len(l) - 1) :
                                    PlaceRank(l[i]) <= PlaceRank(l[i + 1])}}

\* a level that lists a berry before the ghost standing on it
BerryListedFirst ==
    [state |-> [cells |-> Row3,
                objects |-> << Object(0, "Pacman", 0, 0), Object(1, "Berry", 0, 1),
                               Object(2, "Ghost", 0, 1) >>],
     ghost_program |-> AlwaysWait]

Levels ==
    UNION {{[state |-> [cells |-> cells, objects |-> objs], ghost_program |-> gp] :
                objs \in ObjectLists(cells), gp \in GhostPrograms} :
           cells \in Grids}
    \cup {BerryListedFirst}

(***************************************************************************)
(* evaluator.rs: evaluate_program as submit_program calls it, the whole    *)
(* loop in one evaluation                                                  *)
(***************************************************************************)
RECURSIVE evaluate_loop(_, _, _, _, _, _)
\* lines 54-55, then the loop again: `prepared` is the object list after
\* prepare_moves
evaluate_rest(lv, prog, limit, prepared, stps, taken_steps) ==
    evaluate_loop(lv, prog, limit, finish_moves(prepared),
                  Append(stps, get_step(prepared)), taken_steps)

\* lines 41-56: the loop, from the state (objs, stps, taken_steps)
evaluate_loop(lv, prog, limit, objs, stps, taken_steps) ==
    IF taken_steps = limit THEN [steps |-> stps, outcome |-> "OutOfMoves"]
    ELSE IF is_victory(objs) THEN [steps |-> stps, outcome |-> "Success"]
    ELSE IF is_defeat(objs) THEN [steps |-> stps, outcome |-> "Fail"]
    ELSE evaluate_rest(lv, prog, limit,
                       prepare_moves(cleanup_objects(objs), lv.state.cells,
                                     prog, lv.ghost_program),
                       stps, taken_steps + 1)

\* evaluate_program: the SubmissionDetails it returns
evaluate_program(lv, prog, limit) ==
    LET r == evaluate_loop(lv, prog, limit, InitialObjects(lv.state.objects),
                           << >>, 0)
    IN  [initial_state |-> lv.state, steps |-> r.steps, outcome |-> r.outcome]

(***************************************************************************)
(* rate_limiter.rs: RateLimiter::configure, which lib.rs:109 calls; its    *)
(* body is not among the sources, the specification describes it:          *)
(* "create or reconfigure that user's limiter; reconfiguring preserves     *)
(* its current entries"                                                    *)
(***************************************************************************)
RateLimiter_configure(l, max_submissions, time_window) ==
    [l EXCEPT !.max_submissions = max_submissions,
              !.time_window = time_window]

(***************************************************************************)
(* scoreboard.rs: a Scoreboard is the map user_scores                      *)
(***************************************************************************)
Scoreboard_new == [u \in {} |-> u]

UserScore(solved_levels, time_penalty, size_penalty, speed_penalty) ==
    [solved_levels |-> solved_levels,
     time_penalty  |-> time_penalty,
     size_penalty  |-> size_penalty,
     speed_penalty |-> speed_penalty]

Min(a, b) == IF a <= b THEN a ELSE b

\* usize::saturating_sub(1)
SaturatingSub1(x) == IF x = 0 THEN 0 ELSE x - 1

\* an add_user_evaluation that keeps the penalties of the latest success
AddUserEvaluationKeepsLatest(sb, user, time, size, speed) ==
    [u \in DOMAIN sb \cup {user} |->
        IF u = user THEN UserScore(1, time, size, speed) ELSE sb[u]]

\* Scoreboard::add_user_evaluation; the speed penalty, which lib.rs:137
\* passes, is kept the way the time and size penalties are
add_user_evaluation(sb, user, time, size, speed) ==
    LET score == IF user \in DOMAIN sb THEN sb[user] ELSE UserScore(0, 0, 0, 0)
        updated ==
            IF score.solved_levels = 0
            THEN UserScore(1, time, size, speed)
            ELSE UserScore(score.solved_levels,
                           Min(score.time_penalty, time),
                           Min(score.size_penalty, size),
                           Min(score.speed_penalty, speed))
    IN  [u \in DOMAIN sb \cup {user} |-> IF u = user THEN updated ELSE sb[u]]

\* a merge in which the level's score replaces the user's total
AddLevelScoresOverwrites(total, from_level) ==
    [u \in DOMAIN total \cup DOMAIN from_level |->
        IF u \in DOMAIN from_level THEN from_level[u] ELSE total[u]]

\* Scoreboard::add_level_scores
add_level_scores(total, from_level) ==
    [u \in DOMAIN total \cup DOMAIN from_level |->
        IF u \notin DOMAIN from_level THEN total[u]
        ELSE IF u \in DOMAIN total
        THEN UserScore(total[u].solved_levels + from_level[u].solved_levels,
                       total[u].time_penalty + from_level[u].time_penalty,
                       total[u].size_penalty + from_level[u].size_penalty,
                       total[u].speed_penalty + from_level[u].speed_penalty)
        ELSE from_level[u]]

\* std::cmp::Ordering and Ordering::reverse
OrderingReverse(o) ==
    CASE o = "Less" -> "Greater"
      [] o = "Greater" -> "Less"
      [] o = "Equal" -> "Equal"

\* Ord::cmp of two integers, and of two Reverse(integer)
CmpInt(a, b) == IF a < b THEN "Less" ELSE IF a > b THEN "Greater" ELSE "Equal"
CmpReverse(a, b) == CmpInt(b, a)

\* the bytes of a user name: String's Ord compares them
Utf8(user) ==
    CASE user = "u1" -> <<117, 49>>
      [] user = "u2" -> <<117, 50>>
      [] user = "u10" -> <<117, 49, 48>>

\* Ord::cmp of two byte strings: lexicographic, a proper prefix is Less
RECURSIVE CmpBytes(_, _)
CmpBytes(a, b) ==
    IF a = << >> /\ b = << >> THEN "Equal"
    ELSE IF a = << >> THEN "Less"
    ELSE IF b = << >> THEN "Greater"
    ELSE IF Head(a) # Head(b) THEN CmpInt(Head(a), Head(b))
    ELSE CmpBytes(Tail(a), Tail(b))

CmpString(a, b) == CmpBytes(Utf8(a), Utf8(b))

\* Ord::cmp of tuples: the first component that differs decides
ThenCmp(first, rest) == IF first # "Equal" THEN first ELSE rest

\* lines 55-57 and 80-82, the closure given to sort_by:
\* (score1, Reverse(penalty1), user1).cmp(&(score2, Reverse(penalty2), user2)).reverse()
ViewOrder(e1, e2) ==
    OrderingReverse(ThenCmp(CmpInt(e1.solved, e2.solved),
                    ThenCmp(CmpReverse(e1.penalty, e2.penalty),
                            CmpString(e1.user, e2.user))))

\* sort_by over the entries collected from the map; compare[<<a, b>>] is
\* what the closure returns for a and b. The map iterates in an arbitrary
\* order, but no two entries have the same user, so the comparator is a
\* strict total order and the sorted Vec is unique: the entry at index k is
\* the one with k - 1 entries Less than it
sort_by(entries, compare) ==
    [k \in 1..Cardinality(entries) |->
        CHOOSE e \in entries :
            Cardinality({o \in entries \ {e} : compare[<<o, e>>] = "Less"}) = k - 1]

\* the decimal digits of a non-negative integer, as `{}` and to_string
\* write them: a sequence of characters
Digit(d) == <<"0", "1", "2", "3", "4", "5", "6", "7", "8", "9">>[d + 1]

\* `{}` of an integer: a minus sign before the digits of a negative one
RECURSIVE to_string(_)
to_string(n) ==
    IF n < 0 THEN <<"-">> \o to_string(-n)
    ELSE IF n < 10 THEN <<Digit(n)>>
    ELSE to_string(n \div 10) \o <<Digit(n % 10)>>

\* `{:>02}`: right-aligned in a width of 2, filled with '0'
Pad2(digits) == IF Len(digits) < 2 THEN <<"0">> \o digits ELSE digits

\* i64::MAX. i64 is 64 bits wide; the model checker's integers are 32 bits
\* wide, so the model's i64 is the whole of their range. In either width
\* the least value, -MAX - 1, is its own negation.
I64Max == 2147483647

\* format_time_penalty, as a build without overflow checks computes it:
\* -time wraps for the least i64, and / and % truncate towards zero
format_time_penalty(time) ==
    IF time >= 0
    THEN to_string(time \div 60) \o <<":">> \o Pad2(to_string(time % 60))
    ELSE LET minus == IF time = -I64Max - 1 THEN time ELSE -time
             quotient == IF minus < 0 /\ minus % 60 # 0
                         THEN (minus \div 60) + 1 ELSE minus \div 60
             remainder == minus - 60 * quotient
         IN  <<"-">> \o to_string(quotient) \o <<":">> \o Pad2(to_string(remainder))

\* contract::Scoreboard from the sorted (user, solved, penalty) entries and
\* the tie_breaker string of each
ContractScoreboard(title, sorted, tie_breakers) ==
    [title |-> title,
     entries |-> [k \in 1..Len(sorted) |->
                    [user |-> sorted[k].user,
                     solved |-> sorted[k].solved,
                     tie_breaker |-> tie_breakers[k]]]]

\* lines 47-54, 72-79: the (user, solved, penalty) entries collected
TimeEntries(sb) ==
    {[user |-> u, solved |-> sb[u].solved_levels, penalty |-> sb[u].time_penalty] :
        u \in DOMAIN sb}
SizeEntries(sb) ==
    {[user |-> u, solved |-> sb[u].solved_levels, penalty |-> sb[u].size_penalty] :
        u \in DOMAIN sb}

\* Scoreboard::to_contract_with_time
to_contract_with_time(sb, title) ==
    LET entries == TimeEntries(sb)
        sorted == sort_by(entries, [p \in entries \X entries |-> ViewOrder(p[1], p[2])])
    IN  ContractScoreboard(title, sorted,
            [k \in 1..Len(sorted) |-> format_time_penalty(sorted[k].penalty)])

\* Scoreboard::to_contract_with_size
to_contract_with_size(sb, title) ==
    LET entries == SizeEntries(sb)
        sorted == sort_by(entries, [p \in entries \X entries |-> ViewOrder(p[1], p[2])])
    IN  ContractScoreboard(title, sorted,
            [k \in 1..Len(sorted) |-> to_string(sorted[k].penalty)])

(***************************************************************************)
(* scoreboard.rs: Scoreboard::to_contract_with_speed, which lib.rs:101-102 *)
(* calls; its body is not among the sources, the specification describes   *)
(* it: "Sort users by (solved DESC, penalty ASC, user ASC)", the penalty    *)
(* of the view being the speed penalty and the tie_breaker "the integer     *)
(* decimal"                                                                *)
(***************************************************************************)
RankingOrder(e1, e2) ==
    ThenCmp(CmpInt(e2.solved, e1.solved),
    ThenCmp(CmpInt(e1.penalty, e2.penalty),
            CmpString(e1.user, e2.user)))

to_contract_with_speed(sb, title) ==
    LET entries == {[user |-> u, solved |-> sb[u].solved_levels,
                     penalty |-> sb[u].speed_penalty] : u \in DOMAIN sb}
        sorted == sort_by(entries,
                          [p \in entries \X entries |-> RankingOrder(p[1], p[2])])
    IN  ContractScoreboard(title, sorted,
            [k \in 1..Len(sorted) |-> to_string(sorted[k].penalty)])

(***************************************************************************)
(* lib.rs: PacmanGame                                                      *)
(***************************************************************************)
GameConfig(max_steps, count, window) ==
    [max_steps |-> max_steps, rate_limit |-> [count |-> count, window |-> window]]

\* PacmanGame::new
PacmanGame_new(cfg) ==
    [global_scores   |-> Scoreboard_new,
     level_scores    |-> Scoreboard_new,
     current_level   |-> empty_level,
     limiters        |-> [u \in {} |-> u],
     is_level_closed |-> TRUE,
     config          |-> cfg,
     level_start     |-> 0,
     submissions     |-> << >>]

\* the registry holds the fields of game
GameIs(game) ==
    /\ global_scores = game.global_scores
    /\ level_scores = game.level_scores
    /\ current_level = game.current_level
    /\ limiters = game.limiters
    /\ is_level_closed = game.is_level_closed
    /\ config = game.config
    /\ level_start = game.level_start
    /\ submissions = game.submissions

\* the registry is replaced by game (*game = ...)
GameBecomes(game) ==
    /\ global_scores' = game.global_scores
    /\ level_scores' = game.level_scores
    /\ current_level' = game.current_level
    /\ limiters' = game.limiters
    /\ is_level_closed' = game.is_level_closed
    /\ config' = game.config
    /\ level_start' = game.level_start
    /\ submissions' = game.submissions

\* main.rs: the worker threads that run the handlers
Workers == {1, 2}

\* a worker between two requests
IdleThread ==
    [pc |-> "idle", request |-> [op |-> "none"], ticket |-> 0, now |-> 0,
     can_submit |-> FALSE, details |-> << >>, status |-> "None", result |-> << >>]

\* no handler under way and the Mutex free
IdleServer ==
    /\ threads = [w \in Workers |-> IdleThread]
    /\ lock = 0

\* no registry under way: a fresh one with the server's defaults
\* (main.rs:244-250), its lock free
IdleRegistry ==
    /\ IdleServer
    /\ GameIs(PacmanGame_new(GameConfig(100, 2, 10)))
    /\ poisoned = FALSE
    /\ clock = 0
    /\ response = "None"
    /\ scoreboards = << >>
    /\ history = << >>

(***************************************************************************)
(* SpecEval: evaluate_program(level, program, move_limit), a step for the  *)
(* loop's head and one for each phase of a tick                            *)
(***************************************************************************)
\* evaluate_program, lines 23-39
StartEval(lv, prog, limit) ==
    /\ level = lv
    /\ program = prog
    /\ move_limit = limit
    /\ initial_state = lv.state
    /\ steps = << >>
    /\ steps_taken = 0
    /\ objects = InitialObjects(lv.state.objects)
    /\ berry_taken = FALSE
    /\ outcome = "None"
    /\ pc = "loop"

\* no evaluation under way: the registry's level before set_level
IdleEval == StartEval(empty_level, NoRules, 0)

\* the limiter is not part of an evaluation
IdleLimiter ==
    /\ limiter = RateLimiter_new(1, 0)
    /\ calls = << >>

InitEval ==
    /\ \E lv \in Levels, prog \in Programs, limit \in 0..MaxMoveLimit :
          StartEval(lv, prog, limit)
    /\ IdleLimiter
    /\ IdleRegistry

\* the move-limit test one tick late
AtMoveLimitLate == steps_taken = move_limit + 1

\* line 42: steps_taken == move_limit
AtMoveLimit == steps_taken = move_limit

\* lines 42-44
EvalOutOfMoves ==
    /\ pc = "loop"
    /\ AtMoveLimit
    /\ outcome' = "OutOfMoves"
    /\ pc' = "done"
    /\ UNCHANGED <<level, program, move_limit, initial_state, steps, steps_taken,
                   objects, berry_taken>>
    /\ UNCHANGED <<limVars, regVars, srvVars>>

\* lines 45-47
EvalSuccess ==
    /\ pc = "loop"
    /\ ~AtMoveLimit
    /\ is_victory(objects)
    /\ outcome' = "Success"
    /\ pc' = "done"
    /\ UNCHANGED <<level, program, move_limit, initial_state, steps, steps_taken,
                   objects, berry_taken>>
    /\ UNCHANGED <<limVars, regVars, srvVars>>

\* lines 48-50
EvalFail ==
    /\ pc = "loop"
    /\ ~AtMoveLimit
    /\ ~is_victory(objects)
    /\ is_defeat(objects)
    /\ outcome' = "Fail"
    /\ pc' = "done"
    /\ UNCHANGED <<level, program, move_limit, initial_state, steps, steps_taken,
                   objects, berry_taken>>
    /\ UNCHANGED <<limVars, regVars, srvVars>>

\* line 51
EvalBeginTick ==
    /\ pc = "loop"
    /\ ~AtMoveLimit
    /\ ~is_victory(objects)
    /\ ~is_defeat(objects)
    /\ steps_taken' = steps_taken + 1
    /\ pc' = "cleanup"
    /\ UNCHANGED <<level, program, move_limit, initial_state, steps, objects,
                   berry_taken, outcome>>
    /\ UNCHANGED <<limVars, regVars, srvVars>>

\* line 52
EvalCleanup ==
    /\ pc = "cleanup"
    /\ objects' = cleanup_objects(objects)
    /\ pc' = "select"
    /\ UNCHANGED <<level, program, move_limit, initial_state, steps, steps_taken,
                   berry_taken, outcome>>
    /\ UNCHANGED <<limVars, regVars, srvVars>>

\* line 53, prepare_moves lines 100-123
EvalSelectMoves ==
    /\ pc = "select"
    /\ objects' = select_moves(objects, level.state.cells, program, level.ghost_program)
    /\ berry_taken' = is_berry_taken(objects')
    /\ pc' = "end_cell"
    /\ UNCHANGED <<level, program, move_limit, initial_state, steps, steps_taken,
                   outcome>>
    /\ UNCHANGED <<limVars, regVars, srvVars>>

\* prepare_moves lines 124-143
EvalEndCell ==
    /\ pc = "end_cell"
    /\ objects' = end_cell_collisions(objects, berry_taken)
    /\ pc' = "swap"
    /\ UNCHANGED <<level, program, move_limit, initial_state, steps, steps_taken,
                   berry_taken, outcome>>
    /\ UNCHANGED <<limVars, regVars, srvVars>>

\* prepare_moves lines 144-165
EvalSwap ==
    /\ pc = "swap"
    /\ objects' = swap_collisions(objects, berry_taken)
    /\ pc' = "berry"
    /\ UNCHANGED <<level, program, move_limit, initial_state, steps, steps_taken,
                   berry_taken, outcome>>
    /\ UNCHANGED <<limVars, regVars, srvVars>>

\* prepare_moves lines 166-184
EvalBerry ==
    /\ pc = "berry"
    /\ objects' = berry_consumption(objects)
    /\ pc' = "get_step"
    /\ UNCHANGED <<level, program, move_limit, initial_state, steps, steps_taken,
                   berry_taken, outcome>>
    /\ UNCHANGED <<limVars, regVars, srvVars>>

\* line 54
EvalGetStep ==
    /\ pc = "get_step"
    /\ steps' = Append(steps, get_step(objects))
    /\ pc' = "finish_moves"
    /\ UNCHANGED <<level, program, move_limit, initial_state, steps_taken, objects,
                   berry_taken, outcome>>
    /\ UNCHANGED <<limVars, regVars, srvVars>>

\* line 55
EvalFinishMoves ==
    /\ pc = "finish_moves"
    /\ objects' = finish_moves(objects)
    /\ pc' = "loop"
    /\ UNCHANGED <<level, program, move_limit, initial_state, steps, steps_taken,
                   berry_taken, outcome>>
    /\ UNCHANGED <<limVars, regVars, srvVars>>

NextEval ==
    \/ EvalOutOfMoves
    \/ EvalSuccess
    \/ EvalFail
    \/ EvalBeginTick
    \/ EvalCleanup
    \/ EvalSelectMoves
    \/ EvalEndCell
    \/ EvalSwap
    \/ EvalBerry
    \/ EvalGetStep
    \/ EvalFinishMoves

SpecEval == InitEval /\ [][NextEval]_vars

\* line 58: the SubmissionDetails evaluate_program returns
Details == [initial_state |-> initial_state, steps |-> steps, outcome |-> outcome]

(***************************************************************************)
(* SpecLimiter: RateLimiter::new, then any sequence of submit calls        *)
(***************************************************************************)
InitLimiter ==
    /\ \E max \in 1..MaxCount, window \in Windows :
          /\ RateLimiter_new_asserts(max)
          /\ limiter = RateLimiter_new(max, window)
    /\ calls = << >>
    /\ IdleEval
    /\ IdleRegistry

LimiterSubmit(time) ==
    /\ Len(calls) < MaxCalls
    /\ LET r == RateLimiter_submit(limiter, time) IN
          /\ limiter' = r.limiter
          /\ calls' = Append(calls, [time |-> time, ok |-> r.ok])
    /\ UNCHANGED <<evalVars, regVars, srvVars>>

NextLimiter == \E time \in Times : LimiterSubmit(time)

SpecLimiter == InitLimiter /\ [][NextLimiter]_vars

(***************************************************************************)
(* Spec: the registry behind the server's lock.  A handler holds the lock  *)
(* from `state.game.lock()` to its return, so each handler is one step.    *)
(***************************************************************************)
\* the users of the server's user file, and a name that is not among them
RegUsers == {"u1", "u2"}
Stranger == "nobody"

\* levels an admin installs: a berry two cells to the right of Pac-Man, and
\* a ghost that walks into Pac-Man while the berry is still there
WalkToBerryLevel ==
    [state |-> [cells |-> Row3,
                objects |-> << Object(0, "Pacman", 0, 0), Object(1, "Berry", 0, 2) >>],
     ghost_program |-> NoRules]
GhostLevel ==
    [state |-> [cells |-> Row3,
                objects |-> << Object(0, "Pacman", 0, 0), Object(1, "Ghost", 0, 1),
                               Object(2, "Berry", 0, 2) >>],
     ghost_program |-> AlwaysLeft]
RegLevels == {WalkToBerryLevel, GhostLevel}
RegPrograms == {NoRules, AlwaysRight}
\* the window an admin gives a user's limiter
RegWindows == {1}
\* main.rs:244-250: the configuration the command line gives the server
RegConfigs ==
    {GameConfig(4, count, 1) : count \in 0..MaxCount} \cup {GameConfig(3, 1, 0)}

Init ==
    /\ \E cfg \in RegConfigs : GameIs(PacmanGame_new(cfg))
    /\ poisoned = FALSE
    /\ clock = 0
    /\ response = "None"
    /\ scoreboards = << >>
    /\ history = << >>
    /\ IdleLimiter
    /\ IdleEval
    /\ IdleServer

\* evaluate_program is a function of its three arguments: its value on the
\* arguments the registry can pass, computed once
\* a program that waits one tick and then walks right: two rules
Dawdler == [rules |-> << Rule("A", "None", "None", "None", "None", "None", "Wait", "B"),
                         AnyRule("Right", "B") >>]
\* the programs and the configuration of SpecScores
ScorePrograms == {NoRules, AlwaysRight, Dawdler}
ScoreConfig == GameConfig(5, 2, 1)

Evaluations ==
    [lv \in RegLevels \cup {empty_level}, prog \in RegPrograms \cup ScorePrograms,
     limit \in {cfg.max_steps : cfg \in RegConfigs \cup {ScoreConfig}} |->
        evaluate_program(lv, prog, limit)]

\* a handler that returns before it takes the lock, or panics taking it
Returns(r) ==
    /\ response' = r
    /\ UNCHANGED <<gameVars, poisoned, clock>>

\* a handler that panics holding the lock: the guard's drop poisons it
PanicsHoldingLock ==
    /\ poisoned' = TRUE
    /\ response' = "Aborted"
    /\ UNCHANGED gameVars

\* PacmanGame::submit_program
submit_program(user, prog, now) ==
    IF is_level_closed
    THEN /\ response' = "LevelClosed"
         /\ UNCHANGED <<gameVars, poisoned>>
    ELSE IF user \notin DOMAIN limiters
            /\ ~RateLimiter_new_asserts(config.rate_limit.count)
    THEN PanicsHoldingLock
    ELSE LET l == IF user \in DOMAIN limiters THEN limiters[user]
                  ELSE RateLimiter_new(config.rate_limit.count,
                                       config.rate_limit.window)
             can_submit == RateLimiter_submit(l, now)
             details == Evaluations[current_level, prog, config.max_steps]
         IN  /\ limiters' = [u \in DOMAIN limiters \cup {user} |->
                                IF u = user THEN can_submit.limiter ELSE limiters[u]]
             /\ IF can_submit.ok
                THEN /\ level_scores' =
                           IF details.outcome = "Success"
                           THEN add_user_evaluation(level_scores, user,
                                    now - level_start, Len(prog.rules),
                                    SaturatingSub1(Len(details.steps)))
                           ELSE level_scores
                     /\ submissions' = Append(submissions,
                                          [user |-> user, details |-> details])
                     /\ response' = "Ok"
                ELSE /\ response' = "RateLimitExceeded"
                     /\ UNCHANGED <<level_scores, submissions>>
             /\ UNCHANGED <<global_scores, current_level, is_level_closed,
                            config, level_start, poisoned>>

\* main.rs submit
Submit(user, authorized, prog) ==
    /\ Len(submissions) < MaxSubmissions
    /\ IF ~authorized THEN Returns("Unauthorized")
       ELSE IF poisoned THEN Returns("Aborted")
       ELSE \E now \in clock..MaxClock :
               /\ clock' = now
               /\ submit_program(user, prog, now)
    /\ UNCHANGED <<limVars, evalVars, srvVars, scoreboards, history>>

\* set_level that leaves the limiters of the previous level in place
SetLevelKeepsLimiters(lv, now) ==
    /\ global_scores' = add_level_scores(global_scores, level_scores)
    /\ level_scores' = Scoreboard_new
    /\ current_level' = lv
    /\ is_level_closed' = FALSE
    /\ level_start' = now
    /\ submissions' = << >>
    /\ UNCHANGED <<limiters, config>>

\* PacmanGame::set_level
set_level(lv, now) ==
    /\ global_scores' = add_level_scores(global_scores, level_scores)
    /\ level_scores' = Scoreboard_new
    /\ current_level' = lv
    /\ limiters' = [u \in {} |-> u]
    /\ is_level_closed' = FALSE
    /\ level_start' = now
    /\ submissions' = << >>
    /\ UNCHANGED config

\* main.rs set_level (the scoreboard dump it writes is a file, not state)
SetLevel(token_ok, lv) ==
    /\ \A u \in DOMAIN level_scores :
          add_level_scores(global_scores, level_scores)[u].solved_levels <= MaxSolved
    /\ IF ~token_ok THEN Returns("Unauthorized")
       ELSE IF poisoned THEN Returns("Aborted")
       ELSE \E now \in clock..MaxClock :
               /\ clock' = now
               /\ set_level(lv, now)
               /\ response' = "Ok"
               /\ UNCHANGED poisoned
    /\ UNCHANGED <<limVars, evalVars, srvVars, scoreboards, history>>

\* main.rs set_level_state, PacmanGame::set_level_state
SetLevelState(token_ok, closed) ==
    /\ IF ~token_ok THEN Returns("Unauthorized")
       ELSE IF poisoned THEN Returns("Aborted")
       ELSE /\ is_level_closed' = closed
            /\ response' = "Ok"
            /\ UNCHANGED <<global_scores, level_scores, current_level, limiters,
                           config, level_start, submissions, poisoned, clock>>
    /\ UNCHANGED <<limVars, evalVars, srvVars, scoreboards, history>>

\* main.rs reset: takes the lock even when it is poisoned
Reset(token_ok) ==
    /\ IF ~token_ok THEN Returns("Unauthorized")
       ELSE /\ GameBecomes(PacmanGame_new(config))
            /\ response' = "Ok"
            /\ UNCHANGED <<poisoned, clock>>
    /\ UNCHANGED <<limVars, evalVars, srvVars, scoreboards, history>>

\* PacmanGame::rate_limit_user
rate_limit_user(user, count, window) ==
    IF user \in DOMAIN limiters
    THEN /\ limiters' = [limiters EXCEPT
                            ![user] = RateLimiter_configure(@, count, window)]
         /\ response' = "Ok"
         /\ UNCHANGED <<global_scores, level_scores, current_level,
                        is_level_closed, config, level_start, submissions, poisoned>>
    ELSE IF ~RateLimiter_new_asserts(count)
    THEN PanicsHoldingLock
    ELSE /\ limiters' = [u \in DOMAIN limiters \cup {user} |->
                            IF u = user THEN RateLimiter_new(count, window)
                            ELSE limiters[u]]
         /\ response' = "Ok"
         /\ UNCHANGED <<global_scores, level_scores, current_level,
                        is_level_closed, config, level_start, submissions, poisoned>>

\* main.rs rate_limit
RateLimit(token_ok, user, count, window) ==
    /\ IF ~token_ok THEN Returns("Unauthorized")
       ELSE IF user \notin RegUsers THEN Returns("NotFound")
       ELSE IF poisoned THEN Returns("Aborted")
       ELSE /\ rate_limit_user(user, count, window)
            /\ UNCHANGED clock
    /\ UNCHANGED <<limVars, evalVars, srvVars, scoreboards, history>>

Next ==
    \/ \E user \in RegUsers, authorized \in BOOLEAN, prog \in RegPrograms :
          Submit(user, authorized, prog)
    \/ \E token_ok \in BOOLEAN, lv \in RegLevels : SetLevel(token_ok, lv)
    \/ \E token_ok \in BOOLEAN, closed \in BOOLEAN : SetLevelState(token_ok, closed)
    \/ \E token_ok \in BOOLEAN : Reset(token_ok)
    \/ \E token_ok \in BOOLEAN, user \in RegUsers \cup {Stranger},
          count \in 0..MaxCount, window \in RegWindows :
          RateLimit(token_ok, user, count, window)

Spec == Init /\ [][Next]_vars

(***************************************************************************)
(* SpecViews: the ranked views of a Scoreboard.  The scoreboard is one a   *)
(* raw scoreboard file can hold (PacmanGame::from_raw_scoreboard); each    *)
(* step exports one view of it.                                            *)
(***************************************************************************)
MaxViewSolved == 2

ViewUsers == {"u1", "u10", "u2"}
ViewTimes == {-I64Max - 1, -65, 72}
ViewSizes == {1, 12}
ViewSpeeds == {0, 3}

ViewScores ==
    {UserScore(solved, time, size, speed) :
        solved \in 1..MaxViewSolved, time \in ViewTimes,
        size \in ViewSizes, speed \in ViewSpeeds}

RawScoreboards == UNION {[users -> ViewScores] : users \in SUBSET ViewUsers}

\* PacmanGame::from_raw_scoreboard
from_raw_scoreboard(cfg, raw) == [PacmanGame_new(cfg) EXCEPT !.global_scores = raw]

InitViews ==
    /\ \E raw \in RawScoreboards :
          GameIs(from_raw_scoreboard(GameConfig(100, 2, 10), raw))
    /\ poisoned = FALSE
    /\ clock = 0
    /\ response = "None"
    /\ scoreboards = << >>
    /\ history = << >>
    /\ IdleLimiter
    /\ IdleEval
    /\ IdleServer

\* a view of the global scoreboard is exported
Exports(view) ==
    /\ scoreboards' = <<view>>
    /\ UNCHANGED <<gameVars, poisoned, clock, response, history>>
    /\ UNCHANGED <<limVars, evalVars, srvVars>>

\* the time view; a build with overflow checks panics in format_time_penalty
\* on `-time` of the least i64 and exports nothing
ViewWithTime ==
    \/ Exports(to_contract_with_time(global_scores, "Time"))
    \/ /\ \E user \in DOMAIN global_scores :
             global_scores[user].time_penalty = -I64Max - 1
       /\ response' = "Aborted"
       /\ UNCHANGED <<gameVars, poisoned, clock, scoreboards, history>>
       /\ UNCHANGED <<limVars, evalVars, srvVars>>
ViewWithSize == Exports(to_contract_with_size(global_scores, "Size"))
ViewWithSpeed == Exports(to_contract_with_speed(global_scores, "Speed"))

NextViews ==
    \/ ViewWithTime
    \/ ViewWithSize
    \/ ViewWithSpeed

SpecViews == InitViews /\ [][NextViews]_vars

(***************************************************************************)
(* SpecScores: a PacmanGame as its callers use it (lib.rs), for the        *)
(* bookkeeping of the two scoreboards: set_level, submit_program and       *)
(* get_scores in any order, every call written to `history`                *)
(***************************************************************************)
MaxHistory == 5
MaxNow == 1

ScoreUsers == {"u1", "u2"}
ScoreLevels == {WalkToBerryLevel, GhostLevel}

InitScores ==
    /\ GameIs(PacmanGame_new(ScoreConfig))
    /\ poisoned = FALSE
    /\ clock = 0
    /\ response = "None"
    /\ scoreboards = << >>
    /\ history = << >>
    /\ IdleLimiter
    /\ IdleEval
    /\ IdleServer

\* PacmanGame::get_scores; the views are to_contract_with_speed's
get_scores ==
    LET global == add_level_scores(global_scores, level_scores)
    IN  << to_contract_with_speed(level_scores, "Results"),
           to_contract_with_speed(global, "Total") >>

\* a call of set_level(lv, now)
CallSetLevel(lv) ==
    /\ Len(history) < MaxHistory
    /\ \E now \in clock..MaxNow :
          /\ clock' = now
          /\ set_level(lv, now)
          /\ history' = Append(history,
                               [op |-> "set_level", level |-> lv, now |-> now])
    /\ response' = "Ok"
    /\ UNCHANGED <<poisoned, scoreboards>>
    /\ UNCHANGED <<limVars, evalVars, srvVars>>

\* a call of submit_program(user, prog, now) and what it returned
CallSubmitProgram(user, prog) ==
    /\ Len(history) < MaxHistory
    /\ \E now \in clock..MaxNow :
          /\ clock' = now
          /\ submit_program(user, prog, now)
          /\ history' = Append(history,
                               [op |-> "submit_program", user |-> user,
                                program |-> prog, now |-> now,
                                response |-> response'])
    /\ UNCHANGED scoreboards
    /\ UNCHANGED <<limVars, evalVars, srvVars>>

\* a get_scores that merges into the stored global scoreboard, not a clone
CallGetScoresMerging ==
    /\ Len(history) < MaxHistory
    /\ scoreboards' = get_scores
    /\ global_scores' = add_level_scores(global_scores, level_scores)
    /\ history' = Append(history, [op |-> "get_scores"])
    /\ UNCHANGED <<level_scores, current_level, limiters, is_level_closed, config,
                   level_start, submissions, poisoned, clock, response>>
    /\ UNCHANGED <<limVars, evalVars, srvVars>>

\* a call of get_scores()
CallGetScores ==
    /\ Len(history) < MaxHistory
    /\ scoreboards' = get_scores
    /\ history' = Append(history, [op |-> "get_scores"])
    /\ UNCHANGED <<gameVars, poisoned, clock, response>>
    /\ UNCHANGED <<limVars, evalVars, srvVars>>

NextScores ==
    \/ \E lv \in ScoreLevels : CallSetLevel(lv)
    \/ \E user \in ScoreUsers, prog \in ScorePrograms : CallSubmitProgram(user, prog)
    \/ CallGetScores

SpecScores == InitScores /\ [][NextScores]_vars

(***************************************************************************)
(* SpecServer: main.rs under concurrent requests.  Every worker runs one   *)
(* handler at a time; a step is one statement of a handler, or one         *)
(* statement of the PacmanGame method it calls while it holds the          *)
(* MutexGuard.  `history` logs the lock acquisitions and what is done to   *)
(* the submission list: a push by submit, a clear by set_level and reset.  *)
(***************************************************************************)
\* requests that reach state.game.lock(), served or under way
MaxRequests == 4

\* one submission per user and window, and a rate limit of zero, with which
\* RateLimiter::new panics under the lock
ServerConfigs == {GameConfig(4, 1, 1), GameConfig(4, 0, 1)}

\* the requests of main.rs:28, 51, 57, 72, 108; `authorized` is
\* is_password_correct, `token_ok` is admin_token == state.admin_token
Requests ==
    {[op |-> "submit", user |-> u, authorized |-> a, program |-> p] :
        u \in RegUsers, a \in BOOLEAN, p \in RegPrograms}
    \cup {[op |-> "get_submissions"]}
    \cup {[op |-> "get_submission", id |-> id] : id \in 0..MaxSubmissions}
    \cup {[op |-> "set_level", token_ok |-> t, level |-> lv] :
            t \in BOOLEAN, lv \in {WalkToBerryLevel}}
    \cup {[op |-> "reset", token_ok |-> t] : t \in BOOLEAN}

InitServer ==
    /\ \E cfg \in ServerConfigs : GameIs(PacmanGame_new(cfg))
    /\ poisoned = FALSE
    /\ clock = 0
    /\ response = "None"
    /\ scoreboards = << >>
    /\ history = << >>
    /\ IdleServer
    /\ IdleLimiter
    /\ IdleEval

\* the requests that have reached the lock or wait for it
Started ==
    Cardinality({i \in 1..Len(history) : history[i].event = "lock"})
    + Cardinality({w \in Workers : threads[w].pc = "lock"})

\* main.rs:41-44, 74-77, 98-101, 110-113, 124-127, 128 and 135-137: the
\* handler returns before the lock
Refused(request) ==
    IF request.op = "submit" THEN ~request.authorized
    ELSE IF request.op \in {"set_level", "reset", "set_level_state"}
    THEN ~request.token_ok
    ELSE IF request.op = "rate_limit"
    THEN ~request.token_ok \/ request.user \notin RegUsers
    ELSE FALSE

\* a worker takes a request and runs its handler up to state.game.lock()
Receive(w, request) ==
    /\ threads[w].pc = "idle"
    /\ Started < MaxRequests
    /\ IF Refused(request)
       THEN /\ response' = IF request.op = "rate_limit" /\ request.token_ok
                           THEN "NotFound" ELSE "Unauthorized"
            /\ UNCHANGED threads
       ELSE /\ threads' = [threads EXCEPT ![w] =
                              [IdleThread EXCEPT !.pc = "lock", !.request = request]]
            /\ UNCHANGED response
    /\ UNCHANGED <<gameVars, poisoned, clock, lock, scoreboards, history>>
    /\ UNCHANGED <<limVars, evalVars>>

\* a Mutex that lets a second thread in while a guard is alive
MutexNeverBlocks == TRUE

\* std::sync::Mutex::lock blocks the caller until no guard is alive
MutexFree == lock = 0

\* state.game.lock(): .unwrap() panics on a poisoned lock, and the guard
\* inside the error is dropped at once; reset takes the guard out of it.
\* submit and set_level go on to read the clock (main.rs:46, 79)
Acquire(w) ==
    /\ threads[w].pc = "lock"
    /\ MutexFree
    /\ history' = Append(history, [event |-> "lock", op |-> threads[w].request.op,
                                   ticket |-> Len(history) + 1])
    /\ IF poisoned /\ threads[w].request.op # "reset"
       THEN /\ threads' = [threads EXCEPT ![w] = IdleThread]
            /\ response' = "Aborted"
            /\ UNCHANGED lock
       ELSE /\ lock' = w
            /\ threads' = [threads EXCEPT
                  ![w].pc = IF threads[w].request.op \in {"submit", "set_level"}
                           THEN "now" ELSE "call",
                  ![w].ticket = Len(history) + 1]
            /\ UNCHANGED response
    /\ UNCHANGED <<gameVars, poisoned, clock, scoreboards>>
    /\ UNCHANGED <<limVars, evalVars>>

\* a handler that has read the clock before it asked for the lock: its now
\* is any time up to the present
ClockReadBeforeLock(w) ==
    /\ threads[w].pc = "now"
    /\ \E now \in 0..MaxClock :
          /\ clock' = IF now > clock THEN now ELSE clock
          /\ threads' = [threads EXCEPT ![w].pc = "call", ![w].now = now]
    /\ UNCHANGED <<gameVars, poisoned, response, lock, scoreboards, history>>
    /\ UNCHANGED <<limVars, evalVars>>

\* main.rs:46, 79: let now = chrono::Utc::now()
ReadClock(w) ==
    /\ threads[w].pc = "now"
    /\ \E now \in clock..MaxClock :
          /\ clock' = now
          /\ threads' = [threads EXCEPT ![w].pc = "call", ![w].now = now]
    /\ UNCHANGED <<gameVars, poisoned, response, lock, scoreboards, history>>
    /\ UNCHANGED <<limVars, evalVars>>

\* the handler of worker w stands at position at in the handler of op
At(w, op, at) == threads[w].pc = at /\ threads[w].request.op = op

\* the handler goes on to its return with a status
Returning(w, status, result) ==
    threads' = [threads EXCEPT ![w].pc = "return", ![w].status = status,
                               ![w].result = result]

\* a panic unwinds the handler: the guard is dropped by a panicking thread
Unwinds(w) ==
    /\ threads' = [threads EXCEPT ![w] = IdleThread]
    /\ lock' = 0
    /\ poisoned' = TRUE
    /\ response' = "Aborted"

\* lib.rs:116-123: the closed test and the rate limiter
SubmitLimiter(w) ==
    /\ At(w, "submit", "call")
    /\ LET user == threads[w].request.user
           l == IF user \in DOMAIN limiters THEN limiters[user]
                ELSE RateLimiter_new(config.rate_limit.count,
                                     config.rate_limit.window)
           can_submit == RateLimiter_submit(l, threads[w].now)
       IN  IF is_level_closed
           THEN /\ Returning(w, "LevelClosed", << >>)
                /\ UNCHANGED <<gameVars, poisoned, response, lock>>
           ELSE IF user \notin DOMAIN limiters
                   /\ ~RateLimiter_new_asserts(config.rate_limit.count)
           THEN /\ Unwinds(w)
                /\ UNCHANGED gameVars
           ELSE /\ limiters' = [u \in DOMAIN limiters \cup {user} |->
                                   IF u = user THEN can_submit.limiter ELSE limiters[u]]
                /\ IF can_submit.ok
                   THEN threads' = [threads EXCEPT ![w].pc = "evaluate",
                                                   ![w].can_submit = TRUE]
                   ELSE Returning(w, "RateLimitExceeded", << >>)
                /\ UNCHANGED <<global_scores, level_scores, current_level,
                               is_level_closed, config, level_start, submissions,
                               poisoned, response, lock>>
    /\ UNCHANGED <<clock, scoreboards, history>>
    /\ UNCHANGED <<limVars, evalVars>>

\* lib.rs:126-130
SubmitEvaluate(w) ==
    /\ At(w, "submit", "evaluate")
    /\ threads' = [threads EXCEPT
          ![w].pc = "score",
          ![w].details = << Evaluations[current_level, threads[w].request.program,
                                        config.max_steps] >>]
    /\ UNCHANGED <<gameVars, poisoned, clock, response, lock, scoreboards, history>>
    /\ UNCHANGED <<limVars, evalVars>>

\* lib.rs:131-139
SubmitScore(w) ==
    /\ At(w, "submit", "score")
    /\ LET details == threads[w].details[1]
           time_penalty == threads[w].now - level_start
       IN  level_scores' =
              IF details.outcome = "Success"
              THEN add_user_evaluation(level_scores, threads[w].request.user,
                       time_penalty, Len(threads[w].request.program.rules),
                       SaturatingSub1(Len(details.steps)))
              ELSE level_scores
    /\ threads' = [threads EXCEPT ![w].pc = "push"]
    /\ UNCHANGED <<global_scores, current_level, limiters, is_level_closed, config,
                   level_start, submissions>>
    /\ UNCHANGED <<poisoned, clock, response, lock, scoreboards, history>>
    /\ UNCHANGED <<limVars, evalVars>>

\* lib.rs:140-144
SubmitPush(w) ==
    /\ At(w, "submit", "push")
    /\ submissions' = Append(submissions, [user |-> threads[w].request.user,
                                           details |-> threads[w].details[1]])
    /\ history' = Append(history, [event |-> "push", op |-> "submit",
                                   ticket |-> threads[w].ticket,
                                   user |-> threads[w].request.user])
    /\ Returning(w, "Ok", << >>)
    /\ UNCHANGED <<global_scores, level_scores, current_level, limiters,
                   is_level_closed, config, level_start>>
    /\ UNCHANGED <<poisoned, clock, response, lock, scoreboards>>
    /\ UNCHANGED <<limVars, evalVars>>

\* all_submissions with ids counted from one
AllSubmissionsFromOne ==
    [submissions |-> [i \in 1..Len(submissions) |->
                         [id |-> i, user |-> submissions[i].user]],
     level_closed |-> is_level_closed,
     level |-> current_level.state]

\* PacmanGame::all_submissions: enumerate() counts from zero
all_submissions ==
    [submissions |-> [i \in 1..Len(submissions) |->
                         [id |-> i - 1, user |-> submissions[i].user]],
     level_closed |-> is_level_closed,
     level |-> current_level.state]

\* PacmanGame::submission_details: an Option, << >> for None
submission_details(id) ==
    IF id < Len(submissions) THEN << submissions[id + 1].details >> ELSE << >>

\* main.rs:53
GetSubmissions(w) ==
    /\ At(w, "get_submissions", "call")
    /\ Returning(w, "Ok", << all_submissions >>)
    /\ UNCHANGED <<gameVars, poisoned, clock, response, lock, scoreboards, history>>
    /\ UNCHANGED <<limVars, evalVars>>

\* main.rs:59-63
GetSubmission(w) ==
    /\ At(w, "get_submission", "call")
    /\ LET details == submission_details(threads[w].request.id)
       IN  Returning(w, IF details = << >> THEN "NotFound" ELSE "Ok", details)
    /\ UNCHANGED <<gameVars, poisoned, clock, response, lock, scoreboards, history>>
    /\ UNCHANGED <<limVars, evalVars>>

\* main.rs:80 (the dump of main.rs:81-93 is a file, not state)
SetLevelCall(w) ==
    /\ At(w, "set_level", "call")
    /\ set_level(threads[w].request.level, threads[w].now)
    /\ history' = Append(history, [event |-> "clear", op |-> "set_level",
                                   ticket |-> threads[w].ticket])
    /\ Returning(w, "Ok", << >>)
    /\ UNCHANGED <<poisoned, clock, response, lock, scoreboards>>
    /\ UNCHANGED <<limVars, evalVars>>

\* a reset that empties the submission list and keeps the rest
ResetClearsListOnly(w) ==
    /\ At(w, "reset", "call")
    /\ submissions' = << >>
    /\ history' = Append(history, [event |-> "clear", op |-> "reset",
                                   ticket |-> threads[w].ticket])
    /\ Returning(w, "Ok", << >>)
    /\ UNCHANGED <<global_scores, level_scores, current_level, limiters,
                   is_level_closed, config, level_start>>
    /\ UNCHANGED <<poisoned, clock, response, lock, scoreboards>>
    /\ UNCHANGED <<limVars, evalVars>>

\* a reset that leaves the Mutex as good as new
ResetClearsPoison(w) ==
    /\ At(w, "reset", "call")
    /\ GameBecomes(PacmanGame_new(config))
    /\ history' = Append(history, [event |-> "clear", op |-> "reset",
                                   ticket |-> threads[w].ticket])
    /\ Returning(w, "Ok", << >>)
    /\ poisoned' = FALSE
    /\ UNCHANGED <<clock, response, lock, scoreboards>>
    /\ UNCHANGED <<limVars, evalVars>>

\* main.rs:118
ResetCall(w) ==
    /\ At(w, "reset", "call")
    /\ GameBecomes(PacmanGame_new(config))
    /\ history' = Append(history, [event |-> "clear", op |-> "reset",
                                   ticket |-> threads[w].ticket])
    /\ Returning(w, "Ok", << >>)
    /\ UNCHANGED <<poisoned, clock, response, lock, scoreboards>>
    /\ UNCHANGED <<limVars, evalVars>>

\* main.rs:67-69
GetScores(w) ==
    /\ At(w, "scoreboard", "call")
    /\ Returning(w, "Ok", << get_scores >>)
    /\ UNCHANGED <<gameVars, poisoned, clock, response, lock, scoreboards, history>>
    /\ UNCHANGED <<limVars, evalVars>>

\* main.rs:103-104, lib.rs:92-94
SetLevelStateCall(w) ==
    /\ At(w, "set_level_state", "call")
    /\ is_level_closed' = threads[w].request.closed
    /\ Returning(w, "Ok", << >>)
    /\ UNCHANGED <<global_scores, level_scores, current_level, limiters, config,
                   level_start, submissions>>
    /\ UNCHANGED <<poisoned, clock, response, lock, scoreboards, history>>
    /\ UNCHANGED <<limVars, evalVars>>

\* main.rs:130-134, lib.rs:107-113
RateLimitCall(w) ==
    /\ At(w, "rate_limit", "call")
    /\ LET user == threads[w].request.user
           count == threads[w].request.count
           window == threads[w].request.window
       IN  IF user \notin DOMAIN limiters /\ ~RateLimiter_new_asserts(count)
           THEN /\ Unwinds(w)
                /\ UNCHANGED gameVars
           ELSE /\ limiters' =
                      [u \in DOMAIN limiters \cup {user} |->
                          IF u # user THEN limiters[u]
                          ELSE IF user \in DOMAIN limiters
                          THEN RateLimiter_configure(limiters[user], count, window)
                          ELSE RateLimiter_new(count, window)]
                /\ Returning(w, "Ok", << >>)
                /\ UNCHANGED <<global_scores, level_scores, current_level,
                               is_level_closed, config, level_start, submissions,
                               poisoned, response, lock>>
    /\ UNCHANGED <<clock, scoreboards, history>>
    /\ UNCHANGED <<limVars, evalVars>>

\* the handler returns: its guard is dropped and the response goes out
Return(w) ==
    /\ threads[w].pc = "return"
    /\ lock' = 0
    /\ response' = threads[w].status
    /\ threads' = [threads EXCEPT ![w] = IdleThread]
    /\ UNCHANGED <<gameVars, poisoned, clock, scoreboards, history>>
    /\ UNCHANGED <<limVars, evalVars>>

NextServer ==
    \/ \E w \in Workers, request \in Requests : Receive(w, request)
    \/ \E w \in Workers : Acquire(w)
    \/ \E w \in Workers : ReadClock(w)
    \/ \E w \in Workers : SubmitLimiter(w)
    \/ \E w \in Workers : SubmitEvaluate(w)
    \/ \E w \in Workers : SubmitScore(w)
    \/ \E w \in Workers : SubmitPush(w)
    \/ \E w \in Workers : GetSubmissions(w)
    \/ \E w \in Workers : GetSubmission(w)
    \/ \E w \in Workers : SetLevelCall(w)
    \/ \E w \in Workers : ResetCall(w)
    \/ \E w \in Workers : Return(w)

SpecServer == InitServer /\ [][NextServer]_vars

(***************************************************************************)
(* SpecPoison: the same server with a request for each of its eight        *)
(* handlers that take the lock, one user and one program.                  *)
(***************************************************************************)
\* the requests of main.rs:28, 51, 57, 66, 72, 97, 108, 122
PoisonRequests ==
    {[op |-> "submit", user |-> "u1", authorized |-> a, program |-> AlwaysRight] :
        a \in BOOLEAN}
    \cup {[op |-> "get_submissions"], [op |-> "get_submission", id |-> 0],
          [op |-> "scoreboard"]}
    \cup {[op |-> "set_level", token_ok |-> t, level |-> WalkToBerryLevel] :
            t \in BOOLEAN}
    \cup {[op |-> "set_level_state", token_ok |-> t, closed |-> c] :
            t \in BOOLEAN, c \in BOOLEAN}
    \cup {[op |-> "reset", token_ok |-> t] : t \in BOOLEAN}
    \cup {[op |-> "rate_limit", token_ok |-> t, user |-> u, count |-> n,
            window |-> 1] : t \in BOOLEAN, u \in {"u1", Stranger}, n \in 0..1}

NextPoison ==
    \/ \E w \in Workers, request \in PoisonRequests : Receive(w, request)
    \/ \E w \in Workers : Acquire(w)
    \/ \E w \in Workers : ReadClock(w)
    \/ \E w \in Workers : SubmitLimiter(w)
    \/ \E w \in Workers : SubmitEvaluate(w)
    \/ \E w \in Workers : SubmitScore(w)
    \/ \E w \in Workers : SubmitPush(w)
    \/ \E w \in Workers : GetSubmissions(w)
    \/ \E w \in Workers : GetSubmission(w)
    \/ \E w \in Workers : GetScores(w)
    \/ \E w \in Workers : SetLevelCall(w)
    \/ \E w \in Workers : SetLevelStateCall(w)
    \/ \E w \in Workers : ResetCall(w)
    \/ \E w \in Workers : RateLimitCall(w)
    \/ \E w \in Workers : Return(w)

SpecPoison == InitServer /\ [][NextPoison]_vars

(***************************************************************************)
(* Claims on SpecEval                                                      *)
(***************************************************************************)
\* evaluate_program runs level `objs` on grid `cells` with the two programs
Runs(cells, objs, ghost_prog, prog) ==
    /\ level = [state |-> [cells |-> cells, objects |-> objs],
                ghost_program |-> ghost_prog]
    /\ program = prog

\* the death_state of object k in the Step of tick t
StepState(t, k) == steps[t].objects[k].state

SwapLevel == << Object(0, "Pacman", 0, 0), Object(1, "Ghost", 0, 1) >>
SwapLevelWithBerry(col) ==
    << Object(0, "Pacman", 0, 0), Object(1, "Ghost", 0, 1), Object(2, "Berry", 0, col) >>

\* C5 as stated: in the swap scenario without a berry object Pac-Man is
\* marked DiesInMiddle in tick 1 and the outcome is Fail.
C5_SwapDeathWithoutBerry ==
    (Runs(Row2, SwapLevel, AlwaysLeft, AlwaysRight) /\ move_limit >= 3 /\ pc = "done")
        => (outcome = "Fail" /\ StepState(1, 1) = "DiesInMiddle")

\* C5, amended: in the swap scenario (1x2 grid, Pac-Man at (0,0) always
\* Right, Ghost at (0,1) always Left) the two pass through each other in
\* tick 1 and berry_taken decides who dies. Without a berry object
\* berry_taken holds: the Ghost is marked DiesInMiddle, Pac-Man stays Alive
\* and the outcome is Success for move_limit >= 3, never Fail. With a berry
\* object in the level Pac-Man is marked DiesInMiddle and the outcome is
\* Fail for move_limit >= 3.
C5_SwapDecidedByBerryTaken ==
    /\ Runs(Row2, SwapLevel, AlwaysLeft, AlwaysRight) =>
          /\ Len(steps) >= 1 =>
                StepState(1, 1) = "Alive" /\ StepState(1, 2) = "DiesInMiddle"
          /\ outcome # "Fail"
          /\ pc = "done" /\ move_limit >= 3 => outcome = "Success"
    /\ \A col \in {0, 1} :
          Runs(Row2, SwapLevelWithBerry(col), AlwaysLeft, AlwaysRight) =>
              /\ Len(steps) >= 1 =>
                    /\ StepState(1, 1) = "DiesInMiddle"
                    /\ StepState(1, 2) = "Alive"
                    /\ StepState(1, 3) = "Alive"
              /\ pc = "done" /\ move_limit >= 3 => outcome = "Fail"

C5_Witness ==
    /\ Runs(Row2, SwapLevel, AlwaysLeft, AlwaysRight)
    /\ pc = "done"
    /\ outcome = "Success"
    /\ StepState(1, 1) = "Alive"
    /\ StepState(1, 2) = "DiesInMiddle"

WalkLevel == << Object(0, "Pacman", 0, 0), Object(1, "Ghost", 0, 2) >>
WalkLevelWithBerry(col) ==
    << Object(0, "Pacman", 0, 0), Object(1, "Ghost", 0, 2), Object(2, "Berry", 0, col) >>

\* C6 as stated: walking into the waiting ghost, Pac-Man is marked DiesAtEnd
\* in the tick in which it enters (0,2), and the outcome is Fail.
C6_WalkIntoGhostDies ==
    (Runs(Row3, WalkLevel, AlwaysWait, AlwaysRight) /\ move_limit >= 4 /\ pc = "done")
        => (outcome = "Fail" /\ StepState(2, 1) = "DiesAtEnd")

\* C6, amended: on the 1x3 grid with Pac-Man at (0,0) always Right and a
\* Ghost at (0,2) always waiting, Pac-Man enters (0,2) in tick 2. Without a
\* berry object berry_taken holds: the Ghost is marked DiesAtEnd in tick 2,
\* Pac-Man stays Alive and the outcome is Success for move_limit >= 4,
\* never Fail. With a berry object that Pac-Man has not eaten (at (0,0) or
\* (0,2)) Pac-Man is marked DiesAtEnd in tick 2 and the outcome is Fail for
\* move_limit >= 4.
C6_WalkDecidedByBerryTaken ==
    /\ Runs(Row3, WalkLevel, AlwaysWait, AlwaysRight) =>
          /\ Len(steps) >= 1 =>
                StepState(1, 1) = "Alive" /\ StepState(1, 2) = "Alive"
          /\ Len(steps) >= 2 =>
                StepState(2, 1) = "Alive" /\ StepState(2, 2) = "DiesAtEnd"
          /\ outcome # "Fail"
          /\ pc = "done" /\ move_limit >= 4 => outcome = "Success"
    /\ \A col \in {0, 2} :
          Runs(Row3, WalkLevelWithBerry(col), AlwaysWait, AlwaysRight) =>
              /\ Len(steps) >= 1 =>
                    StepState(1, 1) = "Alive" /\ StepState(1, 2) = "Alive"
              /\ Len(steps) >= 2 =>
                    /\ StepState(2, 1) = "DiesAtEnd"
                    /\ StepState(2, 2) = "Alive"
                    /\ StepState(2, 3) = "Alive"
              /\ pc = "done" /\ move_limit >= 4 => outcome = "Fail"

C6_Witness ==
    /\ Runs(Row3, WalkLevel, AlwaysWait, AlwaysRight)
    /\ pc = "done"
    /\ outcome = "Success"
    /\ StepState(2, 1) = "Alive"
    /\ StepState(2, 2) = "DiesAtEnd"

EmpowerLevel ==
    << Object(0, "Pacman", 0, 0), Object(1, "Ghost", 0, 2), Object(2, "Berry", 0, 1) >>

\* object i is a Pac-Man and object j a ghost that end the tick on one cell
Meets(i, j) ==
    /\ objects[i].obj.kind = "Pacman"
    /\ objects[j].obj.kind = "Ghost"
    /\ next_pos(objects[i]) = next_pos(objects[j])

\* object i is a Pac-Man and object j a ghost that swap cells in the tick
Swaps(i, j) ==
    /\ objects[i].obj.kind = "Pacman"
    /\ objects[j].obj.kind = "Ghost"
    /\ next_pos(objects[i]) = pos(objects[j])
    /\ pos(objects[i]) = next_pos(objects[j])

\* the collision phases of the tick are over, the moves not yet committed
AfterCollisions == pc \in {"berry", "get_step", "finish_moves"}
AfterBerryPhase == pc \in {"get_step", "finish_moves"}

\* C8 as stated: in tick 1 of the scenario the berry at (0,1) is marked
\* DiesAtEnd (eaten), Pac-Man is marked DiesAtEnd, and the outcome is Fail.
C8_BerryEatenByDyingPacman ==
    Runs(Row3, EmpowerLevel, AlwaysLeft, AlwaysRight) =>
        /\ Len(steps) >= 1 =>
              StepState(1, 1) = "DiesAtEnd" /\ StepState(1, 3) = "DiesAtEnd"
        /\ pc = "done" /\ move_limit >= 3 => outcome = "Fail"

\* C8, amended: a berry on Pac-Man's next cell does not empower it within
\* the tick: whenever berry_taken was false at the tick's snapshot, a
\* Pac-Man that ends on a ghost's cell or swaps with a ghost is not Alive
\* after the collision phases. In the scenario (1x3 grid, Pac-Man at (0,0)
\* always Right, berry at (0,1), Ghost at (0,2) always Left) Pac-Man and the
\* ghost both step to (0,1) in tick 1, Pac-Man is marked DiesAtEnd, and the
\* berry is not eaten (it stays Alive, a dying Pac-Man eats nothing); the
\* outcome is Fail for move_limit >= 3.
C8_NoSameTickEmpowerment ==
    /\ AfterCollisions /\ ~berry_taken =>
          \A i \in 1..Len(objects), j \in 1..Len(objects) :
              Meets(i, j) \/ Swaps(i, j) => objects[i].obj.state # "Alive"
    /\ Runs(Row3, EmpowerLevel, AlwaysLeft, AlwaysRight) =>
          /\ steps_taken = 1 /\ AfterCollisions =>
                /\ ~berry_taken
                /\ next_pos(objects[1]) = <<0, 1>>
                /\ next_pos(objects[2]) = <<0, 1>>
                /\ pos(objects[3]) = <<0, 1>>
          /\ Len(steps) >= 1 =>
                /\ StepState(1, 1) = "DiesAtEnd"
                /\ StepState(1, 2) = "Alive"
                /\ StepState(1, 3) = "Alive"
          /\ pc = "done" /\ move_limit >= 3 => outcome = "Fail"

C8_Witness ==
    /\ Runs(Row3, EmpowerLevel, AlwaysLeft, AlwaysRight)
    /\ pc = "done"
    /\ outcome = "Fail"
    /\ StepState(1, 1) = "DiesAtEnd"
    /\ StepState(1, 3) = "Alive"

\* C9: berry_taken says that no Berry object is in the object list (so it
\* holds in every tick of a level without a berry). When it holds at the
\* tick's snapshot, after the collision phases every Pac-Man is still
\* Alive, every ghost that swapped cells with a Pac-Man is marked
\* DiesInMiddle, and every other ghost that ends on a Pac-Man's cell is
\* marked DiesAtEnd: one snapshot decides all kills of the tick.
C9_EmpoweredPacmanKillsGhosts ==
    /\ pc \in {"end_cell", "swap", "berry", "get_step", "finish_moves"} =>
          (berry_taken <=> \A k \in 1..Len(objects) : objects[k].obj.kind # "Berry")
    /\ AfterCollisions /\ berry_taken =>
          /\ \A i \in 1..Len(objects) :
                objects[i].obj.kind = "Pacman" => objects[i].obj.state = "Alive"
          /\ \A j \in 1..Len(objects) :
                /\ (\E i \in 1..Len(objects) : Swaps(i, j)) =>
                      objects[j].obj.state = "DiesInMiddle"
                /\ (/\ \E i \in 1..Len(objects) : Meets(i, j)
                    /\ ~\E i \in 1..Len(objects) : Swaps(i, j)) =>
                      objects[j].obj.state = "DiesAtEnd"
    /\ AfterBerryPhase /\ berry_taken =>
          \A k \in 1..Len(objects) :
              objects[k].obj.kind = "Pacman" => objects[k].obj.state = "Alive"

\* Pac-Man, empowered by the berry it ate in an earlier tick, ends the tick
\* on the cell of a ghost, which dies
C9_Witness ==
    /\ pc = "berry"
    /\ berry_taken
    /\ \E k \in 1..Len(level.state.objects) : level.state.objects[k].kind = "Berry"
    /\ \E i \in 1..Len(objects), j \in 1..Len(objects) :
          /\ Meets(i, j)
          /\ ~Swaps(i, j)
          /\ objects[i].obj.state = "Alive"
          /\ objects[j].obj.state = "DiesAtEnd"

\* what evaluate_program keeps of the move limit in every state
C10_WithinMoveLimit ==
    /\ steps_taken <= move_limit
    /\ Len(steps) <= move_limit
    /\ Len(steps) <= steps_taken
    /\ pc = "done" =>
          /\ outcome \in Outcomes
          /\ Len(steps) = steps_taken
          /\ outcome = "OutOfMoves" <=> steps_taken = move_limit
          /\ outcome = "OutOfMoves" => Len(steps) = move_limit

\* the steps evaluate_program has left at most: the phases left of the tick
\* under way and eight steps for each tick the move limit still allows
PhasesLeft ==
    CASE pc = "loop" -> 0
      [] pc = "cleanup" -> 7
      [] pc = "select" -> 6
      [] pc = "end_cell" -> 5
      [] pc = "swap" -> 4
      [] pc = "berry" -> 3
      [] pc = "get_step" -> 2
      [] pc = "finish_moves" -> 1
      [] pc = "done" -> 0

StepsLeft ==
    IF pc = "done" THEN 0 ELSE 1 + (move_limit - steps_taken) * 8 + PhasesLeft

\* C10: evaluate_program terminates for every level, program and
\* move_limit (every step lowers the bound StepsLeft, which is never
\* negative, so no run takes more than its first value of steps); it never
\* records more than move_limit steps, and it returns OutOfMoves exactly
\* when move_limit ticks were run without an earlier Success or Fail, with
\* exactly move_limit steps recorded.
C10_TerminatesWithinMoveLimit ==
    /\ [][StepsLeft' < StepsLeft]_vars
    /\ [](/\ StepsLeft >= 0
          /\ pc \in {"loop", "cleanup", "select", "end_cell", "swap", "berry",
                     "get_step", "finish_moves", "done"}
          /\ C10_WithinMoveLimit)

\* the looping program, the berry out of its reach, the largest move limit
C10_Witness ==
    /\ Runs(Row3, << Object(0, "Pacman", 0, 0), Object(1, "Berry", 0, 2) >>,
            AlwaysWait, Patrol)
    /\ move_limit = MaxMoveLimit
    /\ pc = "done"
    /\ outcome = "OutOfMoves"
    /\ Len(steps) = MaxMoveLimit

(***************************************************************************)
(* Claims on SpecLimiter                                                   *)
(***************************************************************************)
SetMin(S) == CHOOSE x \in S : \A y \in S : x <= y
SetMax(S) == CHOOSE x \in S : \A y \in S : x >= y
Range(seq) == {seq[i] : i \in 1..Len(seq)}
CallTimes == [i \in 1..Len(calls) |-> calls[i].time]
CallResults == [i \in 1..Len(calls) |-> calls[i].ok]

\* the step a submit call takes, as the sliding-window-by-oldest rule states it
C1_StepRule ==
    LET time == calls'[Len(calls')].time
        ok == calls'[Len(calls')].ok
        old == limiter.entries
        new == limiter'.entries
    IN  /\ Len(calls') = Len(calls) + 1
        /\ limiter'.max_submissions = limiter.max_submissions
        /\ limiter'.time_window = limiter.time_window
        /\ IF Len(old) < limiter.max_submissions
           THEN ok /\ new = Append(old, time)
           ELSE LET oldest == SetMin(Range(old)) IN
                /\ ok <=> (oldest + limiter.time_window < time)
                /\ ok => \E i \in 1..Len(old) :
                            old[i] = oldest /\ new = [old EXCEPT ![i] = time]
                /\ ~ok => new = old

\* C1: every submit call follows the sliding-window-by-oldest rule: below
\* max stored timestamps it stores the time and returns Ok (so max calls at
\* one instant are admitted and the next at that instant is rejected); at
\* max it returns Ok, replacing the oldest timestamp, exactly when
\* oldest + window < time, and Exceeded otherwise. With max = 2 and
\* window = 10 the calls 0, 1, 2, 12, 13 give Ok, Ok, Exceeded, Ok, Ok.
C1_SlidingWindowByOldest ==
    /\ [][C1_StepRule]_vars
    /\ [](/\ (/\ Len(calls) = limiter.max_submissions + 1
              /\ \A i \in 1..Len(calls) : calls[i].time = calls[1].time)
             => /\ \A i \in 1..limiter.max_submissions : calls[i].ok
                /\ ~calls[Len(calls)].ok
          /\ (/\ limiter.max_submissions = 2
              /\ limiter.time_window = 10
              /\ CallTimes = <<0, 1, 2, 12, 13>>)
             => CallResults = <<TRUE, TRUE, FALSE, TRUE, TRUE>>)

C1_Witness ==
    /\ limiter.max_submissions = 2
    /\ limiter.time_window = 10
    /\ CallTimes = <<0, 1, 2, 12, 13>>
    /\ CallResults = <<TRUE, TRUE, FALSE, TRUE, TRUE>>
    /\ limiter.entries = <<12, 13>>

NonDecreasing(seq) == \A i \in 1..(Len(seq) - 1) : seq[i] <= seq[i + 1]

\* the admitted calls whose timestamps lie in the closed interval [a, b]
AdmittedIn(a, b) ==
    {i \in 1..Len(calls) : calls[i].ok /\ a <= calls[i].time /\ calls[i].time <= b}

\* C2: when the timestamps passed to submit are non-decreasing, every
\* interval of length at most window holds at most max admitted submissions.
C2_AtMostMaxPerWindow ==
    NonDecreasing(CallTimes) =>
        \A a \in SetMin(Times)..SetMax(Times) :
            \A len \in 0..limiter.time_window :
                Cardinality(AdmittedIn(a, a + len)) <= limiter.max_submissions

\* a full window: max admitted calls inside one window, a rejected call in
\* the same window, and a later admitted call outside it
C2_Witness ==
    /\ NonDecreasing(CallTimes)
    /\ limiter.time_window > 0
    /\ \E a \in Times :
          /\ Cardinality(AdmittedIn(a, a + limiter.time_window)) = limiter.max_submissions
          /\ \E i \in 1..Len(calls) :
                ~calls[i].ok /\ a <= calls[i].time /\ calls[i].time <= a + limiter.time_window
          /\ \E i \in 1..Len(calls) :
                calls[i].ok /\ calls[i].time > a + limiter.time_window

(***************************************************************************)
(* Claims on Spec                                                          *)
(***************************************************************************)
\* C3: every per-user rate limiter stores at most `max` timestamps, after
\* any sequence of submits and of rate_limit_user reconfigurations.
C3_EntriesWithinMax ==
    \A u \in DOMAIN limiters :
        Len(limiters[u].entries) <= limiters[u].max_submissions

\* a limiter appears for user u in this step
Constructed(u) == u \notin DOMAIN limiters /\ u \in DOMAIN limiters'

\* C4: no rate limiter with max = 0 is ever constructed: a limiter that
\* appears in the map has max >= 1, and a handler that becomes the first to
\* abort holding the lock (the construction assertion is the only panic under
\* the lock) returns nothing and leaves the registry, limiters included, as
\* it was.
C4_NoZeroMaxConstructed ==
    [][/\ \A u \in RegUsers :
             Constructed(u) => limiters'[u].max_submissions >= 1
       /\ (~poisoned /\ poisoned') =>
             /\ response' = "Aborted"
             /\ UNCHANGED gameVars
             /\ \/ config.rate_limit.count = 0
                \/ \E u \in RegUsers : u \notin DOMAIN limiters]_vars

\* a first submit under a configuration with count 0 aborted on the assertion
C4_Witness ==
    /\ poisoned
    /\ response = "Aborted"
    /\ config.rate_limit.count = 0
    /\ ~is_level_closed
    /\ DOMAIN limiters = {}
    /\ submissions = << >>

\* submission i is the run of the always-Right program on the walk-to-berry
\* level under the registry's move limit
IsWalkToBerryRun(i) ==
    submissions[i].details =
        Evaluations[WalkToBerryLevel, AlwaysRight, config.max_steps]

\* C7 as stated: the walk-to-berry run returns Success with a step list of
\* length exactly 2 and leaves size_penalty 1 in the level scoreboard.
C7_WalkToBerryTwoSteps ==
    \A i \in 1..Len(submissions) :
        (IsWalkToBerryRun(i) /\ config.max_steps >= 4) =>
            /\ submissions[i].details.outcome = "Success"
            /\ Len(submissions[i].details.steps) = 2
            /\ submissions[i].user \in DOMAIN level_scores
            /\ level_scores[submissions[i].user].size_penalty = 1

\* C7 (amended): with a move limit of at least 4 the walk-to-berry run
\* returns Success with a step list of length exactly 3 (the berry is eaten
\* in tick 2 and removed in tick 3; in tick 3 Pac-Man waits at (0,2)), and
\* the user's level scoreboard entry has size_penalty 1; with a move limit of
\* 3 the outcome is OutOfMoves.
C7_WalkToBerryThreeSteps ==
    \A i \in 1..Len(submissions) :
        IsWalkToBerryRun(i) =>
            LET details == submissions[i].details
                user == submissions[i].user
            IN  IF config.max_steps >= 4
                THEN /\ details.outcome = "Success"
                     /\ Len(details.steps) = 3
                     /\ details.steps[2].objects[2].state = "DiesAtEnd"
                     /\ Len(details.steps[3].objects) = 1
                     /\ details.steps[3].objects[1].row = 0
                     /\ details.steps[3].objects[1].col = 2
                     /\ details.steps[3].objects[1].current_move = "Wait"
                     /\ user \in DOMAIN level_scores
                     /\ level_scores[user].solved_levels = 1
                     /\ level_scores[user].size_penalty = 1
                ELSE /\ details.outcome = "OutOfMoves"
                     /\ user \notin DOMAIN level_scores

C7_Witness ==
    /\ config.max_steps = 4
    /\ current_level = WalkToBerryLevel
    /\ Len(submissions) = 1
    /\ IsWalkToBerryRun(1)
    /\ response = "Ok"
    /\ level_scores[submissions[1].user].size_penalty = 1

(***************************************************************************)
(* Claims on SpecEval: the invariants of a tick                            *)
(***************************************************************************)
\* (row, col) is a cell of the grid and the grid has Empty there
InGridOnEmpty(cells, row, col) ==
    /\ row >= 0 /\ row < Len(cells)
    /\ col >= 0 /\ col < Len(cells[row + 1])
    /\ cells[row + 1][col + 1] = "Empty"

Rectangular(cells) == \A r \in 1..Len(cells) : Len(cells[r]) = Len(cells[1])

\* every object of the level stands on an in-grid Empty cell
InitialOnEmpty ==
    \A k \in 1..Len(initial_state.objects) :
        InGridOnEmpty(initial_state.cells, initial_state.objects[k].row,
                      initial_state.objects[k].col)

\* the moves of the tick are selected, the tick is not yet committed
MovesSelected == pc \in {"end_cell", "swap", "berry", "get_step", "finish_moves"}

\* the rule matcher sent object o over the border of the grid
StepsOffGrid(cells, o) ==
    \/ o.obj.intended_move = "Up" /\ o.obj.row = 0
    \/ o.obj.intended_move = "Left" /\ o.obj.col = 0
    \/ o.obj.intended_move = "Down" /\ o.obj.row = Len(cells) - 1
    \/ o.obj.intended_move = "Right" /\ o.obj.col = Len(cells[o.obj.row + 1]) - 1

\* every position of the evaluation is an in-grid Empty cell, and an agent
\* sent over the border waits
C11_OnEmptyCells ==
    (Rectangular(level.state.cells) /\ InitialOnEmpty) =>
        /\ \A i \in 1..Len(objects) :
              /\ InGridOnEmpty(level.state.cells, objects[i].obj.row, objects[i].obj.col)
              /\ InGridOnEmpty(level.state.cells, objects[i].next_row, objects[i].next_col)
              /\ (MovesSelected /\ objects[i].obj.kind # "Berry"
                    /\ StepsOffGrid(level.state.cells, objects[i])) =>
                    /\ objects[i].obj.current_move = "Wait"
                    /\ next_pos(objects[i]) = pos(objects[i])
        /\ \A t \in 1..Len(steps) : \A k \in 1..Len(steps[t].objects) :
              InGridOnEmpty(level.state.cells, steps[t].objects[k].row,
                            steps[t].objects[k].col)

\* C11: walls are impassable: on a rectangular grid and from a level whose
\* objects all stand on in-grid Empty cells, every object's position, its
\* staged next position and its position in every Step are inside the grid
\* and on an Empty cell; an agent sent off row 0 or column 0 (or past the
\* last row or column) waits where it is instead of wrapping around.
C11_WallsImpassable == []C11_OnEmptyCells

\* a Pac-Man on row 0 was told to go Up, a ghost on column 0 to go Left, and
\* both wait
C11_Witness ==
    /\ pc = "finish_moves"
    /\ \E i \in 1..Len(objects) :
          /\ objects[i].obj.kind = "Pacman"
          /\ objects[i].obj.intended_move = "Up"
          /\ objects[i].obj.row = 0
          /\ objects[i].obj.current_move = "Wait"
    /\ \E j \in 1..Len(objects) :
          /\ objects[j].obj.kind = "Ghost"
          /\ objects[j].obj.intended_move = "Left"
          /\ objects[j].obj.col = 0
          /\ objects[j].obj.current_move = "Wait"

\* the cell a move leads to from (row, col), as next_pos computes it
MoveTarget(row, col, move) ==
    CASE move = "Up" -> <<WrappingSub1(row), col>>
      [] move = "Down" -> <<WrappingAdd1(row), col>>
      [] move = "Left" -> <<row, WrappingSub1(col)>>
      [] move = "Right" -> <<row, WrappingAdd1(col)>>
      [] move = "Wait" -> <<row, col>>

\* the program that moves an object of this kind
ProgramOf(kind) == IF kind = "Pacman" THEN program ELSE level.ghost_program

\* the selection step: every agent's intended_move is what pick_move
\* returns for it on the list the tick starts from
C12_Selection ==
    pc = "select" =>
        /\ Len(objects') = Len(objects)
        /\ \A i \in 1..Len(objects) :
              objects[i].obj.kind # "Berry" =>
                 objects'[i].obj.intended_move =
                     pick_move(objects, level.state.cells,
                               ProgramOf(objects[i].obj.kind), objects[i].state,
                               objects[i].obj.row, objects[i].obj.col)[2]

\* the collision phases leave the moves alone and the Step records them
C12_Recorded ==
    /\ pc \in {"end_cell", "swap", "berry"} =>
          /\ Len(objects') = Len(objects)
          /\ \A i \in 1..Len(objects) :
                /\ objects'[i].obj.intended_move = objects[i].obj.intended_move
                /\ objects'[i].obj.current_move = objects[i].obj.current_move
    /\ pc = "get_step" =>
          /\ Len(steps') = Len(steps) + 1
          /\ Len(steps'[Len(steps')].objects) = Len(objects)
          /\ \A i \in 1..Len(objects) :
                /\ steps'[Len(steps')].objects[i].intended_move
                       = objects[i].obj.intended_move
                /\ steps'[Len(steps')].objects[i].current_move
                       = objects[i].obj.current_move

\* in every Step an agent's current_move is its intended_move or Wait, and
\* it is Wait against a non-Wait intended_move only when the cell the
\* intended_move leads to is a Wall or outside the grid
C12_InEveryStep ==
    \A t \in 1..Len(steps) : \A k \in 1..Len(steps[t].objects) :
        LET o == steps[t].objects[k]
            target == MoveTarget(o.row, o.col, o.intended_move)
        IN  o.kind # "Berry" =>
               /\ o.current_move \in {o.intended_move, "Wait"}
               /\ (o.current_move = "Wait" /\ o.intended_move # "Wait") =>
                     ~InGridOnEmpty(level.state.cells, target[1], target[2])

\* C12: in every Step, for every Pac-Man and Ghost, intended_move is the
\* rule matcher's output for that agent on the pre-tick state; current_move
\* is intended_move or Wait, and it is Wait with a non-Wait intended_move
\* only when the cell implied by intended_move is Wall or out of bounds.
C12_IntendedAndCurrentMove ==
    [][C12_Selection /\ C12_Recorded]_vars /\ []C12_InEveryStep

\* a Step holds an agent that was blocked (intended Right, waits) and an
\* agent that moves as intended
C12_Witness ==
    /\ pc = "finish_moves"
    /\ LET last == steps[Len(steps)].objects
       IN  /\ \E k \in 1..Len(last) :
                 /\ last[k].kind # "Berry"
                 /\ last[k].intended_move \notin {"Wait"}
                 /\ last[k].current_move = "Wait"
           /\ \E k \in 1..Len(last) :
                 /\ last[k].kind # "Berry"
                 /\ last[k].intended_move # "Wait"
                 /\ last[k].current_move = last[k].intended_move

\* how many objects of a kind a list of Objects holds
CountKind(objs, kind) == Cardinality({k \in 1..Len(objs) : objs[k].kind = kind})

\* the Objects of the evaluator's list
ObjectsOf(infos) == [k \in 1..Len(infos) |-> infos[k].obj]

Kinds == {"Berry", "Ghost", "Pacman"}

\* no step of the evaluation adds an object of any kind to the list, and
\* every object of the list was in it before the step
C13_NeverCreated ==
    /\ \A kind \in Kinds :
          CountKind(ObjectsOf(objects'), kind) <= CountKind(ObjectsOf(objects), kind)
    /\ \A k \in 1..Len(objects') : \E j \in 1..Len(objects) :
          /\ objects'[k].obj.id = objects[j].obj.id
          /\ objects'[k].obj.kind = objects[j].obj.kind

\* from Step to Step, and from the level to Step 1, no count grows; a level
\* with one Pac-Man and at most one berry has at most one of each in every
\* Step
C13_InEveryStep ==
    /\ \A t \in 1..Len(steps) : \A kind \in Kinds :
          CountKind(steps[t].objects, kind)
              <= CountKind(IF t = 1 THEN initial_state.objects
                                    ELSE steps[t - 1].objects, kind)
    /\ (/\ CountKind(initial_state.objects, "Pacman") = 1
        /\ CountKind(initial_state.objects, "Berry") <= 1) =>
          \A t \in 1..Len(steps) :
              /\ CountKind(steps[t].objects, "Pacman") <= 1
              /\ CountKind(steps[t].objects, "Berry") <= 1

\* C13: conservation: over any tick the numbers of ghosts, of berries and of
\* Pac-Men in the object list never increase (objects are only removed,
\* never created); hence a level that starts with one Pac-Man and at most
\* one berry has at most one Pac-Man and at most one berry in every Step.
C13_Conservation == [][C13_NeverCreated]_vars /\ []C13_InEveryStep

\* a level of one Pac-Man, one ghost and one berry has lost the berry and
\* the ghost: the last Step holds Pac-Man alone
C13_Witness ==
    /\ \A kind \in Kinds : CountKind(initial_state.objects, kind) = 1
    /\ Len(steps) >= 2
    /\ CountKind(steps[Len(steps)].objects, "Pacman") = 1
    /\ Len(steps[Len(steps)].objects) = 1

\* no two ghosts of the level stand on one cell
GhostsApartInLevel ==
    \A j, k \in 1..Len(initial_state.objects) :
        (/\ j # k
         /\ initial_state.objects[j].kind = "Ghost"
         /\ initial_state.objects[k].kind = "Ghost") =>
            <<initial_state.objects[j].row, initial_state.objects[j].col>>
                # <<initial_state.objects[k].row, initial_state.objects[k].col>>

\* a tick has been committed: finish_moves has run
Committed == pc = "loop" /\ Len(steps) >= 1

\* C14: given an initial level in which no two ghosts share a cell, two
\* Alive ghosts never occupy the same cell after a tick's commit, for any
\* ghost program and any Pac-Man program.
C14_AliveGhostsApart ==
    (GhostsApartInLevel /\ Committed) =>
        \A j, k \in 1..Len(objects) :
            (/\ j # k
             /\ objects[j].obj.kind = "Ghost" /\ objects[j].obj.state = "Alive"
             /\ objects[k].obj.kind = "Ghost" /\ objects[k].obj.state = "Alive") =>
                pos(objects[j]) # pos(objects[k])

\* the Step of the tick has been taken and the tick is not yet committed
StepTaken == pc = "finish_moves"

\* C15 as stated: the (row, col) a Step records for an object is the
\* position the object reached by this tick's move (its next position).
C15_StepShowsNextPositions ==
    StepTaken =>
        \A i \in 1..Len(objects) :
            <<steps[Len(steps)].objects[i].row, steps[Len(steps)].objects[i].col>>
                = next_pos(objects[i])

\* the last Step agrees with the uncommitted object list, and every Step
\* shows each object where the Step before it sent it
C15_PreTickPositions ==
    /\ StepTaken =>
          /\ Len(steps[Len(steps)].objects) = Len(objects)
          /\ \A i \in 1..Len(objects) :
                LET o == steps[Len(steps)].objects[i]
                IN  /\ <<o.row, o.col>> = pos(objects[i])
                    /\ o.state = objects[i].obj.state
                    /\ o.current_move = objects[i].obj.current_move
                    /\ next_pos(objects[i]) = MoveTarget(o.row, o.col, o.current_move)
    /\ \A t \in 1..Len(steps) : \A k \in 1..Len(steps[t].objects) :
          LET o == steps[t].objects[k]
          IN  IF t = 1
              THEN \E j \in 1..Len(initial_state.objects) :
                      /\ initial_state.objects[j].id = o.id
                      /\ initial_state.objects[j].row = o.row
                      /\ initial_state.objects[j].col = o.col
              ELSE \E j \in 1..Len(steps[t - 1].objects) :
                      LET before == steps[t - 1].objects[j]
                      IN  /\ before.id = o.id
                          /\ before.state = "Alive"
                          /\ <<o.row, o.col>>
                                = MoveTarget(before.row, before.col, before.current_move)

\* C15, amended: a Step is taken after this tick's moves are selected and
\* its deaths annotated but before the moves are committed: it records for
\* every object, one marked DiesAtEnd or DiesInMiddle in this tick included,
\* the position the object had when the tick began (in Step 1 the position
\* of the level), together with this tick's current_move and death_state.
\* The position reached by current_move is what the next Step records for
\* an object that survives the tick.
C15_StepShowsPreTickPositions == []C15_PreTickPositions

\* a Step shows an agent that moved and died at the end of the tick on the
\* cell it left, and a later Step shows a survivor on the cell it reached
C15_Witness ==
    /\ StepTaken
    /\ \E i \in 1..Len(objects) :
          /\ steps[Len(steps)].objects[i].state = "DiesAtEnd"
          /\ steps[Len(steps)].objects[i].current_move # "Wait"
          /\ pos(objects[i]) # next_pos(objects[i])
    /\ Len(steps) >= 2
    /\ \E k \in 1..Len(steps[1].objects) :
          /\ steps[1].objects[k].current_move # "Wait"
          /\ steps[1].objects[k].state = "Alive"

(***************************************************************************)
(* Claims on SpecViews                                                     *)
(***************************************************************************)
\* the penalty of a user the view ranks by
ViewPenalty(view, user) ==
    CASE view.title = "Time" -> global_scores[user].time_penalty
      [] view.title = "Size" -> global_scores[user].size_penalty
      [] view.title = "Speed" -> global_scores[user].speed_penalty

\* entry a ranks before entry b: more solved; equal solved and the smaller
\* penalty; equal solved and penalty and the smaller user name
RanksBefore(view, a, b) ==
    \/ a.solved > b.solved
    \/ /\ a.solved = b.solved
       /\ ViewPenalty(view, a.user) < ViewPenalty(view, b.user)
    \/ /\ a.solved = b.solved
       /\ ViewPenalty(view, a.user) = ViewPenalty(view, b.user)
       /\ CmpString(a.user, b.user) = "Less"

\* C16: every scoreboard view lists its entries sorted by (solved
\* descending, penalty ascending, user name ascending): a higher solved
\* count comes first, ties are broken by the smaller penalty, and remaining
\* ties by the lexicographically smaller user name first.
C16_ViewsRanked ==
    \A v \in 1..Len(scoreboards) :
        LET view == scoreboards[v]
        IN  /\ {view.entries[k].user : k \in 1..Len(view.entries)} = DOMAIN global_scores
            /\ Len(view.entries) = Cardinality(DOMAIN global_scores)
            /\ \A k \in 1..Len(view.entries) :
                  view.entries[k].solved = global_scores[view.entries[k].user].solved_levels
            /\ \A j, k \in 1..Len(view.entries) :
                  j < k => RanksBefore(view, view.entries[j], view.entries[k])

(***************************************************************************)
(* Claims on SpecScores: the scoreboards against the history of calls      *)
(***************************************************************************)
\* the indices of the set_level calls
SetLevelCalls == {i \in 1..Len(history) : history[i].op = "set_level"}

\* the last set_level call before call i, 0 when there is none
LevelCallBefore(i) ==
    LET before == {s \in SetLevelCalls : s < i}
    IN  IF before = {} THEN 0
        ELSE CHOOSE s \in before : \A r \in before : r <= s

\* the level call i is made on and the time that level was installed
LevelAt(i) ==
    IF LevelCallBefore(i) = 0 THEN empty_level
    ELSE history[LevelCallBefore(i)].level

StartAt(i) ==
    IF LevelCallBefore(i) = 0 THEN 0 ELSE history[LevelCallBefore(i)].now

\* call i is a submission that was accepted, and what its evaluation gives
IsSubmission(i) ==
    /\ history[i].op = "submit_program"
    /\ history[i].response = "Ok"

DetailsOf(i) == Evaluations[LevelAt(i), history[i].program, ScoreConfig.max_steps]

IsSuccess(i) == IsSubmission(i) /\ DetailsOf(i).outcome = "Success"

\* the three penalties of submission i
TimeOf(i) == history[i].now - StartAt(i)
SizeOf(i) == Len(history[i].program.rules)
SpeedOf(i) == IF Len(DetailsOf(i).steps) = 0 THEN 0 ELSE Len(DetailsOf(i).steps) - 1

\* the Success submissions of a user among the calls lo..hi
WinsIn(user, lo, hi) == {i \in lo..hi : IsSuccess(i) /\ history[i].user = user}

\* the least value of the function f over the non-empty set S
Least(f, S) == CHOOSE m \in {f[i] : i \in S} : \A i \in S : m <= f[i]

\* the best score a user has from the Success submissions `wins` of a level
BestOf(wins) ==
    UserScore(1,
              Least([i \in wins |-> TimeOf(i)], wins),
              Least([i \in wins |-> SizeOf(i)], wins),
              Least([i \in wins |-> SpeedOf(i)], wins))

\* the calls made since the current level was installed
SinceLevel == (LevelCallBefore(Len(history) + 1) + 1)..Len(history)

\* the level scoreboard is the best of each user's Success submissions
C17_LevelScoresAreBest ==
    \A u \in ScoreUsers :
        LET wins == WinsIn(u, LevelCallBefore(Len(history) + 1) + 1, Len(history))
        IN  /\ u \in DOMAIN level_scores <=> wins # {}
            /\ wins # {} => level_scores[u] = BestOf(wins)

\* a step that is an accepted submission ending in Fail or OutOfMoves
\* leaves both scoreboards as they are
C17_LosingChangesNothing ==
    (/\ Len(history') = Len(history) + 1
     /\ history'[Len(history')].op = "submit_program"
     /\ history'[Len(history')].response = "Ok"
     /\ Evaluations[current_level, history'[Len(history')].program,
                    config.max_steps].outcome \in {"Fail", "OutOfMoves"})
        => UNCHANGED <<level_scores, global_scores>>

\* C17: per-level scoreboard: after any sequence of submit_program calls
\* within one level, a user has an entry in the level scoreboard exactly
\* when that user made at least one Success submission in the level; the
\* entry has solved = 1 however many winning submissions were made, and its
\* time, size and speed penalties each equal the minimum, over that user's
\* Success submissions in the level, of (now - level_start), (number of
\* rules) and (number of steps - 1, saturating at 0).  Fail and OutOfMoves
\* submissions never change any scoreboard.
C17_PerLevelScoreboard ==
    []C17_LevelScoresAreBest /\ [][C17_LosingChangesNothing]_vars

\* a user has won the level twice, the earlier win the larger and slower
\* program, so the entry takes its time from one submission and its size
\* from the other; the other user's only submission lost
C17_Witness ==
    /\ \E u \in ScoreUsers : \E i, j \in SinceLevel :
          /\ {i, j} \subseteq WinsIn(u, 1, Len(history))
          /\ TimeOf(i) < TimeOf(j)
          /\ SizeOf(i) > SizeOf(j)
          /\ SpeedOf(i) > SpeedOf(j)
          /\ level_scores[u] = UserScore(1, TimeOf(i), SizeOf(j), SpeedOf(j))
    /\ \E u \in ScoreUsers : \E i \in SinceLevel :
          /\ IsSubmission(i) /\ history[i].user = u
          /\ ~IsSuccess(i)
          /\ u \notin DOMAIN level_scores

\* the sum of the function f over the set S
RECURSIVE SumOver(_, _)
SumOver(f, S) ==
    IF S = {} THEN 0
    ELSE LET x == CHOOSE x \in S : TRUE
         IN  f[x] + SumOver(f, S \ {x})

\* the Success submissions of a user in the level that set_level call s
\* replaced
WinsBefore(user, s) == WinsIn(user, LevelCallBefore(s) + 1, s - 1)

\* the set_level calls that replaced a level the user had a Success in
SolvedAt(user) == {s \in SetLevelCalls : WinsBefore(user, s) # {}}

\* the global scoreboard holds, per user, the number of replaced levels the
\* user solved and the sums of the per-level best penalties
C18_GlobalIsSumOfBests ==
    \A u \in ScoreUsers :
        LET solved == SolvedAt(u)
            best == [s \in solved |-> BestOf(WinsBefore(u, s))]
        IN  /\ u \in DOMAIN global_scores <=> solved # {}
            /\ solved # {} =>
                  global_scores[u] =
                      UserScore(Cardinality(solved),
                                SumOver([s \in solved |-> best[s].time_penalty], solved),
                                SumOver([s \in solved |-> best[s].size_penalty], solved),
                                SumOver([s \in solved |-> best[s].speed_penalty], solved))

\* a set_level with no submit_program call since the level was installed
\* leaves the global scoreboard as it is
C18_NothingToMerge ==
    (/\ Len(history') = Len(history) + 1
     /\ history'[Len(history')].op = "set_level"
     /\ \A i \in SinceLevel : history[i].op # "submit_program")
        => global_scores' = global_scores

\* C18: global accumulation: starting from an empty global scoreboard and
\* without reset, after any sequence of set_level and submit_program calls
\* each level's scoreboard has been merged into the global one exactly once
\* (at the set_level that replaced it): a user's global solved equals the
\* number of replaced levels in which they had a Success, and each global
\* penalty equals the sum of their per-level best penalties; calling
\* set_level again with no submissions in between adds nothing.
C18_GlobalAccumulation ==
    []C18_GlobalIsSumOfBests /\ [][C18_NothingToMerge]_vars

\* a user has solved two levels, both replaced since: the global entry is
\* the sum of two level entries
C18_Witness ==
    /\ \E u \in ScoreUsers :
          /\ Cardinality(SolvedAt(u)) = 2
          /\ global_scores[u].solved_levels = 2
          /\ global_scores[u].size_penalty >= 2
    /\ history[Len(history)].op = "set_level"
    /\ level_scores = Scoreboard_new

\* the step is a call of operation op
Calls(op) ==
    /\ Len(history') = Len(history) + 1
    /\ history'[Len(history')].op = op

\* what a user has in a scoreboard, nothing counting as zero
SolvedIn(sb, user) == IF user \in DOMAIN sb THEN sb[user].solved_levels ELSE 0
SpeedIn(sb, user) == IF user \in DOMAIN sb THEN sb[user].speed_penalty ELSE 0

\* view lists exactly the users of the two scoreboards, each with the sum
\* of what the two hold for the user
IsTotalOf(view, global, of_level) ==
    /\ view.title = "Total"
    /\ Len(view.entries) = Cardinality(DOMAIN global \cup DOMAIN of_level)
    /\ {view.entries[k].user : k \in 1..Len(view.entries)}
          = DOMAIN global \cup DOMAIN of_level
    /\ \A k \in 1..Len(view.entries) :
          LET e == view.entries[k]
          IN  /\ e.solved = SolvedIn(global, e.user) + SolvedIn(of_level, e.user)
              /\ e.tie_breaker
                    = to_string(SpeedIn(global, e.user) + SpeedIn(of_level, e.user))

\* get_scores returns two views, the second the total of the stored global
\* and the level scoreboard, and leaves the registry as it is; called again
\* at once it returns the same
C19_GetScoresReadsOnly ==
    Calls("get_scores") =>
        /\ UNCHANGED <<global_scores, level_scores, current_level, limiters,
                       is_level_closed, config, level_start, submissions>>
        /\ Len(scoreboards') = 2
        /\ IsTotalOf(scoreboards'[2], global_scores, level_scores)
        /\ (history # << >> /\ history[Len(history)].op = "get_scores") =>
              scoreboards' = scoreboards

\* the total view is the same just before and just after a set_level
C19_TotalSurvivesSetLevel ==
    Calls("set_level") => get_scores'[2] = get_scores[2]

\* C19: get_scores changes no registry state (in particular it does not
\* merge anything into the stored global scoreboard, so repeated calls
\* return the same result), and its second view equals the stored global
\* scoreboard merged with the current level scoreboard; consequently the
\* total view just before a set_level equals the total view just after it.
C19_GetScoresFrame ==
    [][C19_GetScoresReadsOnly /\ C19_TotalSurvivesSetLevel]_vars

\* get_scores was called while a user had a score in the global and in the
\* level scoreboard: the total view shows the user with two levels solved
C19_Witness ==
    /\ history # << >>
    /\ history[Len(history)].op = "get_scores"
    /\ \E u \in DOMAIN global_scores \cap DOMAIN level_scores :
          \E k \in 1..Len(scoreboards[2].entries) :
              /\ scoreboards[2].entries[k].user = u
              /\ scoreboards[2].entries[k].solved = 2
    /\ global_scores # add_level_scores(global_scores, level_scores)

(***************************************************************************)
(* Claims on Spec: rejected submissions                                    *)
(***************************************************************************)
\* C20: a rejected submit_program changes nothing: when the level is closed
\* it returns LevelClosed before consulting the rate limiter, leaving
\* submissions, both scoreboards and every limiter (no limiter created, no
\* slot consumed) unchanged; when the level is open and the user's limiter
\* denies `now` it returns RateLimitExceeded, leaving submissions,
\* scoreboards and the limiters' stored timestamps unchanged, so repeated
\* rejected attempts do not extend the lockout.
C20_RejectedSubmitChangesNothing ==
    [][/\ response' = "LevelClosed" =>
             /\ is_level_closed
             /\ UNCHANGED <<submissions, level_scores, global_scores, limiters,
                            current_level, is_level_closed, config, level_start>>
       /\ response' = "RateLimitExceeded" =>
             /\ ~is_level_closed
             /\ \E u \in DOMAIN limiters :
                   ~RateLimiter_submit(limiters[u], clock').ok
             /\ UNCHANGED <<submissions, level_scores, global_scores, limiters,
                            current_level, is_level_closed, config, level_start>>
      ]_vars

\* a submission has just been turned down by a limiter that is full, with a
\* submission and a score already recorded in the level
C20_Witness ==
    /\ response = "RateLimitExceeded"
    /\ submissions # << >>
    /\ level_scores # Scoreboard_new
    /\ \E u \in DOMAIN limiters :
          /\ Len(limiters[u].entries) >= 1
          /\ Len(limiters[u].entries) >= limiters[u].max_submissions
          /\ ~RateLimiter_submit(limiters[u], clock).ok


(***************************************************************************)
(* Claims on SpecServer: the submission list under concurrent handlers     *)
(***************************************************************************)
\* the events of `history` after the last time the list was cleared
LastClear ==
    LET clears == {i \in 1..Len(history) : history[i].event = "clear"}
    IN  IF clears = {} THEN 0 ELSE CHOOSE i \in clears : \A j \in clears : j <= i
IsPush(e) == e.event = "push"
PushesSinceClear == SelectSeq(SubSeq(history, LastClear + 1, Len(history)), IsPush)

\* the handler of worker w sets its status in this step
Answers(w, op, status) ==
    /\ threads[w].request.op = op
    /\ threads[w].pc # "return"
    /\ threads'[w].pc = "return"
    /\ threads'[w].status = status

\* the list is the pushes since it was cleared, in the order of the
\* tickets the submit handlers drew when they acquired the lock
C21_IdsInLockOrder ==
    /\ Len(submissions) = Len(PushesSinceClear)
    /\ \A k \in 1..Len(PushesSinceClear) :
          LET push == PushesSinceClear[k]
          IN  /\ history[push.ticket].event = "lock"
              /\ history[push.ticket].op = "submit"
              /\ all_submissions.submissions[k] = [id |-> k - 1, user |-> push.user]
              /\ \A m \in 1..(k - 1) : PushesSinceClear[m].ticket < push.ticket

\* what the two read handlers answer under the lock
C21_Reads ==
    \A w \in Workers :
       /\ At(w, "get_submissions", "return") =>
             LET listed == threads[w].result[1].submissions
             IN  /\ Len(listed) = Len(submissions)
                 /\ \A k \in 1..Len(listed) :
                       listed[k] = [id |-> k - 1, user |-> submissions[k].user]
       /\ At(w, "get_submission", "return") =>
             LET id == threads[w].request.id
             IN  IF id >= Len(submissions)
                 THEN threads[w].result = << >> /\ threads[w].status = "NotFound"
                 ELSE threads[w].result = << submissions[id + 1].details >>

\* a submit that answers Ok has appended one entry, nothing else makes the
\* list longer, and an entry stays as it is until the list is cleared
C21_Steps ==
    /\ \A w \in Workers :
          Answers(w, "submit", "Ok") =>
             /\ Len(submissions') = Len(submissions) + 1
             /\ submissions'[Len(submissions')].user = threads[w].request.user
             /\ all_submissions'.submissions[Len(submissions')].id = Len(submissions)
    /\ Len(submissions') > Len(submissions) =>
          \E w \in Workers : Answers(w, "submit", "Ok")
    /\ \/ \A k \in 1..Len(submissions) :
             k <= Len(submissions') /\ submissions'[k] = submissions[k]
       \/ /\ submissions' = << >>
          /\ \E w \in Workers : \/ Answers(w, "set_level", "Ok")
                                 \/ Answers(w, "reset", "Ok")

\* C21: within a level the submission list is append-only and ids are list
\* indices: a submit that returns Ok appends exactly one entry whose id is
\* the previous length, ids grow in the order the submit handlers acquired
\* the lock, all_submissions reports ids 0..n-1 in that order,
\* submission_details(id) is None for id >= n, and an entry keeps its user
\* and details until set_level or reset clears the list.
C21_AppendOnlyIds == []C21_IdsInLockOrder /\ []C21_Reads /\ [][C21_Steps]_vars

\* two handlers have pushed, the one that locked first holds id 0, and a
\* get_submissions holding the lock has listed both
C21_Witness ==
    /\ Len(submissions) = 2
    /\ submissions[1].user # submissions[2].user
    /\ \E w \in Workers :
          /\ At(w, "get_submissions", "return")
          /\ Len(threads[w].result[1].submissions) = 2

\* the handler of worker w holds the MutexGuard
InGuard(w) == threads[w].pc \in {"now", "call", "evaluate", "score", "push", "return"}

\* the limiter has admitted the submit of worker w, which has not pushed yet
Admitted(w) == threads[w].pc \in {"evaluate", "score", "push"}

C22_OneGuard == \A w \in Workers : InGuard(w) <=> lock = w

\* only the statements of the guard's holder touch the registry, and until
\* the admitted submit has pushed, the limiters and the list stay as the
\* limiter check left them
C22_HolderOnly ==
    \A w \in Workers :
       /\ lock = w /\ threads'[w] = threads[w] =>
             /\ UNCHANGED <<gameVars, poisoned, clock>>
             /\ \A v \in Workers : InGuard(v)' => v = w
       /\ Admitted(w) /\ Admitted(w)' => UNCHANGED <<limiters, submissions>>
       /\ Admitted(w) /\ ~Admitted(w)' =>
             /\ Answers(w, "submit", "Ok")
             /\ submissions' = Append(submissions, [user |-> threads[w].request.user,
                                                    details |-> threads[w].details[1]])
             /\ threads[w].now \in
                   {limiters'[threads[w].request.user].entries[i] :
                      i \in 1..Len(limiters'[threads[w].request.user].entries)}

\* C22: a rate-limiter decision and the submission it gates are atomic:
\* the limiter check, the evaluation, the scoreboard update and the append
\* of one submit happen in one critical section of the registry lock, no
\* other handler reads or writes the registry in between, and none consumes
\* the admitted slot.
C22_SubmitIsAtomic == []C22_OneGuard /\ [][C22_HolderOnly]_vars

\* a submit has been admitted and not pushed yet while the other worker
\* waits for the lock with a submit of the same user
C22_Witness ==
    \E w \in Workers, v \in Workers :
       /\ Admitted(w)
       /\ At(v, "submit", "lock")
       /\ threads[v].request.user = threads[w].request.user
       /\ config.rate_limit.count = 1

(***************************************************************************)
(* Claims on SpecServer: the poisoned lock                                 *)
(***************************************************************************)
\* worker w comes back from state.game.lock() in this step
Locks(w) == threads[w].pc = "lock" /\ threads'[w].pc # "lock"

\* on a poisoned lock only reset gets into its body
C23_OnlyResetEnters ==
    poisoned => \A w \in Workers : InGuard(w) => threads[w].request.op = "reset"

C23_OnPoisonedLock ==
    poisoned =>
       /\ \A w \in Workers :
             /\ Locks(w) /\ threads[w].request.op = "reset" =>
                   /\ lock' = w
                   /\ threads'[w].pc = "call"
                   /\ response' = response
             /\ Locks(w) /\ threads[w].request.op # "reset" =>
                   /\ threads'[w] = IdleThread
                   /\ response' = "Aborted"
                   /\ UNCHANGED gameVars
             /\ Answers(w, "reset", "Ok") => GameBecomes(PacmanGame_new(config))
       /\ \/ UNCHANGED gameVars
          \/ \E w \in Workers : Answers(w, "reset", "Ok")

\* C23: reset recovers from a poisoned registry lock: after a lock holder
\* has crashed, a reset with a valid admin token does not abort, it
\* completes and leaves the registry equal to a freshly constructed one;
\* every other operation aborts on the poisoned lock and leaves the
\* registry as it is.
C23_ResetRecovers == []C23_OnlyResetEnters /\ [][C23_OnPoisonedLock]_vars

\* a level was installed, a handler crashed under the lock, and a reset
\* has gone through: the registry is fresh, the level closed again
C23_Witness ==
    /\ poisoned
    /\ \E i \in 1..Len(history) :
          history[i].event = "clear" /\ history[i].op = "set_level"
    /\ \E w \in Workers : At(w, "reset", "return") /\ threads[w].status = "Ok"
    /\ GameIs(PacmanGame_new(config))

(***************************************************************************)
(* Claims on SpecViews: the time tie-breaker                               *)
(***************************************************************************)
\* M:SS of a number of seconds: the minutes and seconds of its absolute
\* value, a '-' before them when it is negative
MinutesSeconds(time) ==
    LET quotient == IF time < 0 /\ time % 60 # 0
                    THEN (time \div 60) + 1 ELSE time \div 60
        remainder == time - 60 * quotient
    IN  IF time < 0
        THEN <<"-">> \o to_string(-quotient) \o <<":">> \o Pad2(to_string(-remainder))
        ELSE to_string(quotient) \o <<":">> \o Pad2(to_string(remainder))

\* the exported time views show M:SS of the users' time penalties
TimesShownAsMinutesSeconds(times) ==
    \A v \in 1..Len(scoreboards) :
       scoreboards[v].title = "Time" =>
          \A k \in 1..Len(scoreboards[v].entries) :
             LET entry == scoreboards[v].entries[k]
                 time == global_scores[entry.user].time_penalty
             IN  time \in times => entry.tie_breaker = MinutesSeconds(time)

\* C24: the time tie-breaker is M:SS for every integer number of seconds:
\* minutes = |time| div 60 unpadded, seconds = |time| mod 60 padded to two
\* digits, a leading '-' exactly when time is negative; formatting a time
\* always yields such a string.
C24_TimeFormat ==
    /\ response # "Aborted"
    /\ TimesShownAsMinutesSeconds(ViewTimes)

(***************************************************************************)
(* Claims on SpecEval: the rule matcher                                    *)
(***************************************************************************)
\* what agent i observes on the cell its move would lead to
Neighbour(i, move) ==
    LET target == MoveTarget(objects[i].obj.row, objects[i].obj.col, move)
    IN  get_cell(objects, level.state.cells, target[1], target[2])

\* an absent filter passes anything, a present one its own value only
Passes(filter, actual) == filter = "None" \/ filter = actual

NoBerryLeft == \A j \in 1..Len(objects) : objects[j].obj.kind # "Berry"

\* every present filter of the rule matches for agent i
Accepts(rule, i) ==
    /\ Passes(rule.current_state, objects[i].state)
    /\ Passes(rule.up, Neighbour(i, "Up"))
    /\ Passes(rule.down, Neighbour(i, "Down"))
    /\ Passes(rule.left, Neighbour(i, "Left"))
    /\ Passes(rule.right, Neighbour(i, "Right"))
    /\ rule.berry = "Taken" => NoBerryLeft
    /\ rule.berry = "NotTaken" => ~NoBerryLeft

\* the selection gives every agent the action of the first rule, in list
\* order, that accepts it, and (its rule state, Wait) when none does; it
\* changes no object's identity, kind, position or death state
C25_FirstAccepting ==
    pc = "select" =>
        /\ Len(objects') = Len(objects)
        /\ \A i \in 1..Len(objects) :
              /\ objects'[i].obj.id = objects[i].obj.id
              /\ objects'[i].obj.kind = objects[i].obj.kind
              /\ objects'[i].obj.state = objects[i].obj.state
              /\ pos(objects'[i]) = pos(objects[i])
              /\ objects[i].obj.kind # "Berry" =>
                    LET rules == ProgramOf(objects[i].obj.kind).rules
                        accepting == {k \in 1..Len(rules) : Accepts(rules[k], i)}
                    IN  IF accepting = {}
                        THEN /\ objects'[i].state = objects[i].state
                             /\ objects'[i].obj.intended_move = "Wait"
                        ELSE \E k \in accepting :
                                /\ \A j \in accepting : k <= j
                                /\ objects'[i].state = rules[k].next_state
                                /\ objects'[i].obj.intended_move = rules[k].next_move

\* C25: the rule matcher returns the action (next_state, next_move) of the
\* first rule, in list order, all of whose present filters match; when no
\* rule matches, also for an empty program, it returns the unchanged rule
\* state and Wait. It modifies no object.
C25_FirstMatchingRule == [][C25_FirstAccepting]_vars

\* the first rule did not accept Pac-Man and was passed over; the second,
\* whose only filter is berry Taken, gave the move and the next state
C25_Witness ==
    /\ pc = "end_cell"
    /\ program = Hunter
    /\ \E i \in 1..Len(objects) :
          /\ objects[i].obj.kind = "Pacman"
          /\ objects[i].state = "B"
          /\ objects[i].obj.intended_move = "Left"
          /\ ~Accepts(Hunter.rules[1], i)

\* the kinds of the objects standing on (row, col)
KindsOn(row, col) ==
    {objects[j].obj.kind : j \in {j \in 1..Len(objects) : pos(objects[j]) = <<row, col>>}}

\* what a rule is to observe on (row, col): the greatest kind standing on
\* it under Berry < Ghost < Pacman, else the grid's cell, Wall off the grid
Observed(row, col) ==
    LET kinds == KindsOn(row, col)
        cells == level.state.cells
    IN  IF "Pacman" \in kinds THEN "Pacman"
        ELSE IF "Ghost" \in kinds THEN "Ghost"
        ELSE IF "Berry" \in kinds THEN "Berry"
        ELSE IF row >= Len(cells) \/ col >= Len(cells[1]) THEN "Wall"
        ELSE cells[row + 1][col + 1]

\* the cells an agent of the grid can look at, the wrapped -1 among them
Lookable(n) == (0..n) \cup {UsizeMax}

\* a directional filter passes exactly when it names what is observed
ObservedBy(rule, i) ==
    LET row == objects[i].obj.row
        col == objects[i].obj.col
    IN  /\ Passes(rule.up, Observed(WrappingSub1(row), col))
        /\ Passes(rule.down, Observed(WrappingAdd1(row), col))
        /\ Passes(rule.left, Observed(row, WrappingSub1(col)))
        /\ Passes(rule.right, Observed(row, WrappingAdd1(col)))

\* the rule the selection took for agent i is the first whose state and
\* berry filters pass and whose directional filters name what is observed
C26_SelectionSeesObserved ==
    pc = "select" =>
        \A i \in 1..Len(objects) :
           objects[i].obj.kind # "Berry" =>
              LET rules == ProgramOf(objects[i].obj.kind).rules
                  accepting == {k \in 1..Len(rules) :
                                   /\ Passes(rules[k].current_state, objects[i].state)
                                   /\ ObservedBy(rules[k], i)
                                   /\ rules[k].berry = "Taken" => NoBerryLeft
                                   /\ rules[k].berry = "NotTaken" => ~NoBerryLeft}
              IN  IF accepting = {}
                  THEN objects'[i].obj.intended_move = "Wait"
                  ELSE \E k \in accepting :
                          /\ \A j \in accepting : k <= j
                          /\ objects'[i].obj.intended_move = rules[k].next_move

\* when the matcher runs, get_cell is the observation, on and off the grid
C26_GetCellIsObserved ==
    pc = "select" =>
       \A row \in Lookable(Len(level.state.cells)),
          col \in Lookable(Len(level.state.cells[1])) :
          get_cell(objects, level.state.cells, row, col) = Observed(row, col)

\* C26: the neighbour cell the rule matcher observes is the greatest kind
\* among the objects standing on it at their pre-tick positions, under
\* Berry < Ghost < Pacman (a ghost on a berry is seen as a ghost), and
\* otherwise the grid's Wall or Empty, every cell outside the grid, row or
\* column -1 included, being a Wall.
C26_ObservedNeighbour == []C26_GetCellIsObserved /\ [][C26_SelectionSeesObserved]_vars

\* a ghost stands on a berry listed before it, to the right of Pac-Man,
\* whose first rule (a ghost to the right: wait) has been taken
C26_Witness ==
    /\ pc = "end_cell"
    /\ program = Careful
    /\ \E i \in 1..Len(objects) :
          /\ objects[i].obj.kind = "Pacman"
          /\ objects[i].obj.intended_move = "Wait"
          /\ KindsOn(objects[i].obj.row, objects[i].obj.col + 1) = {"Ghost", "Berry"}
    /\ level = BerryListedFirst

(***************************************************************************)
(* Claims on SpecEval: berries and the outcome                             *)
(***************************************************************************)
\* object k is a berry with a Pac-Man that is Alive stepping onto it
EatenBy(k, i) ==
    /\ objects[i].obj.kind = "Pacman"
    /\ objects[i].obj.state = "Alive"
    /\ next_pos(objects[i]) = pos(objects[k])

\* a berry's death state changes only in the berry phase, to DiesAtEnd,
\* and only with a Pac-Man still Alive after the collision phases on it
C27_BerryStep ==
    /\ Len(objects') = Len(objects) =>
          \A k \in 1..Len(objects) :
             (objects[k].obj.kind = "Berry"
                /\ objects'[k].obj.state # objects[k].obj.state) =>
                   /\ pc = "berry"
                   /\ objects'[k].obj.state = "DiesAtEnd"
                   /\ \E i \in 1..Len(objects) : EatenBy(k, i)
    /\ pc = "berry" =>
          /\ Len(objects') = Len(objects)
          /\ \A i \in 1..Len(objects) :
                objects[i].obj.kind # "Berry" => objects'[i] = objects[i]

\* a berry is Alive or DiesAtEnd, and it is Alive while the collision
\* phases of a tick run
C27_BerryStates ==
    \A k \in 1..Len(objects) :
       objects[k].obj.kind = "Berry" =>
          /\ objects[k].obj.state \in {"Alive", "DiesAtEnd"}
          /\ pc \in {"select", "end_cell", "swap", "berry"} =>
                objects[k].obj.state = "Alive"

\* C27: berries are consumed only by Pac-Men still Alive after the
\* end-cell and swap collision phases: a Berry is marked DiesAtEnd only if
\* such a Pac-Man has its next position on the berry; a Pac-Man marked
\* DiesAtEnd or DiesInMiddle in a tick consumes no berry in that tick, and
\* no ghost ever consumes one.
C27_BerriesEatenByAlivePacman == []C27_BerryStates /\ [][C27_BerryStep]_vars

\* after the berry phase a berry is still Alive although a Pac-Man marked
\* dying in this tick and a ghost both step onto its cell
C27_Witness ==
    /\ pc = "get_step"
    /\ \E k \in 1..Len(objects), i \in 1..Len(objects), g \in 1..Len(objects) :
          /\ objects[k].obj.kind = "Berry"
          /\ objects[k].obj.state = "Alive"
          /\ objects[i].obj.kind = "Pacman"
          /\ objects[i].obj.state # "Alive"
          /\ next_pos(objects[i]) = pos(objects[k])
          /\ objects[g].obj.kind = "Ghost"
          /\ next_pos(objects[g]) = pos(objects[k])

\* the kinds on the evaluator's list, dying objects included
Present == [k \in 1..Len(objects) |-> objects[k].obj.kind]

LonePacman(kinds) == kinds = << "Pacman" >>
NoPacman(kinds) == \A k \in 1..Len(kinds) : kinds[k] # "Pacman"

\* the kinds of the level's initial objects
InitialKinds ==
    [k \in 1..Len(initial_state.objects) |-> initial_state.objects[k].kind]

\* the outcome is written only at the head of the loop, from the list as the
\* previous tick left it: OutOfMoves first, then Success, then Fail; a tick
\* begins, on that same list, only when none of the three applies
C28_Decision ==
    /\ outcome' # outcome => pc = "loop" /\ outcome = "None"
    /\ pc = "loop" =>
          /\ pc' \in {"done", "cleanup"}
          /\ objects' = objects
          /\ steps' = steps
          /\ outcome' = "OutOfMoves" <=> steps_taken = move_limit
          /\ outcome' = "Success" <=>
                steps_taken # move_limit /\ LonePacman(Present)
          /\ outcome' = "Fail" <=>
                /\ steps_taken # move_limit
                /\ ~LonePacman(Present)
                /\ NoPacman(Present)
          /\ pc' = "done" <=> outcome' \in Outcomes
          /\ pc' = "cleanup" <=> outcome' = "None"

\* a returned Success or Fail is the decision on the list that is returned
C28_Returned ==
    pc = "done" =>
       /\ outcome = "Success" => LonePacman(Present)
       /\ outcome = "Fail" => NoPacman(Present)

\* the two levels that are decided with no tick run, for the move limits
\* in limits
DecidedAtOnce(limits) ==
    (pc = "done" /\ move_limit \in limits) =>
       /\ LonePacman(InitialKinds) => outcome = "Success" /\ steps = << >>
       /\ NoPacman(InitialKinds) => outcome = "Fail" /\ steps = << >>

\* C28 as stated: evaluate_program decides the outcome before each tick, in
\* the order OutOfMoves, Success, Fail, on the object list as left by the
\* previous tick; a level whose initial objects are a lone Pac-Man gives
\* Success with zero steps and one with no Pac-Man gives Fail with zero
\* steps, whatever the move limit.
C28_DecidedAtOnceForEveryLimit == DecidedAtOnce(0..MaxMoveLimit)

\* C28: evaluate_program decides the outcome before each tick, in the order
\* OutOfMoves, Success, Fail, on the object list as left by the previous
\* tick (objects marked dying in that tick still count as present): Success
\* only when the list holds exactly one object, Pac-Man, and Fail only when
\* it holds no Pac-Man; with a move limit above zero a level whose initial
\* objects are a lone Pac-Man gives Success with zero steps and one with no
\* Pac-Man gives Fail with zero steps (with a move limit of zero both give
\* OutOfMoves).
C28_OutcomeBeforeTick ==
    /\ [][C28_Decision]_vars
    /\ [](C28_Returned /\ DecidedAtOnce(1..MaxMoveLimit))

\* the loop is about to run another tick although the only object still
\* Alive is Pac-Man: the object marked dying in the previous tick counts
C28_Witness ==
    /\ pc = "loop"
    /\ steps_taken # move_limit
    /\ steps # << >>
    /\ ~LonePacman(Present)
    /\ ~NoPacman(Present)
    /\ \E i \in 1..Len(objects) :
          /\ objects[i].obj.kind = "Pacman"
          /\ objects[i].obj.state = "Alive"
          /\ \A k \in 1..Len(objects) : k # i => objects[k].obj.state # "Alive"

\* the objects of Step number t that are marked dying in it
DyingIn(t) ==
    {k \in 1..Len(steps[t].objects) : steps[t].objects[k].state # "Alive"}

\* in tick t a berry is eaten or a ghost is killed
EatenIn(t) ==
    \E k \in DyingIn(t) : steps[t].objects[k].kind \in {"Berry", "Ghost"}

\* a Success after at least one tick: fewer steps than the move limit, the
\* last Step showing Pac-Man alone and Alive, the Step before it showing
\* every other object marked dying
C30_SuccessOneTickLater ==
    (pc = "done" /\ outcome = "Success" /\ steps # << >>) =>
       LET n == Len(steps)
           last == steps[n].objects
       IN  /\ n < move_limit
           /\ Len(last) = 1
           /\ last[1].kind = "Pacman"
           /\ last[1].state = "Alive"
           /\ n >= 2
           /\ DyingIn(n - 1) # {}
           /\ Cardinality(DyingIn(n - 1)) = Len(steps[n - 1].objects) - 1

\* a berry eaten or a ghost killed in one of the last two ticks the move
\* limit allows ends in OutOfMoves
C30_EatenTooLate ==
    pc = "done" =>
       \A t \in 1..Len(steps) :
          (t \in {move_limit - 1, move_limit} /\ EatenIn(t)) =>
             outcome = "OutOfMoves"

\* C30: Success needs one tick beyond the tick in which the last other
\* object is marked dying: whenever evaluate_program returns Success with a
\* non-empty step list, the number of steps is strictly less than
\* move_limit and the last Step contains exactly one object, an Alive
\* Pac-Man; if Pac-Man eats the berry (or the last ghost) in tick number
\* move_limit, or in tick move_limit - 1, the outcome is OutOfMoves rather
\* than Success.
C30_SuccessNeedsOneMoreTick == [](C30_SuccessOneTickLater /\ C30_EatenTooLate)

\* Pac-Man has eaten the last object on the list in tick move_limit - 1, the
\* Step of tick move_limit shows him alone, and the outcome is OutOfMoves
C30_Witness ==
    /\ pc = "done"
    /\ outcome = "OutOfMoves"
    /\ move_limit >= 2
    /\ Len(steps) = move_limit
    /\ EatenIn(move_limit - 1)
    /\ Len(steps[move_limit].objects) = 1
    /\ steps[move_limit].objects[1].kind = "Pacman"
    /\ steps[move_limit].objects[1].state = "Alive"

(***************************************************************************)
(* Claims on Spec: installing a level                                      *)
(***************************************************************************)
\* the fields of the registry
Game ==
    [global_scores   |-> global_scores,
     level_scores    |-> level_scores,
     current_level   |-> current_level,
     limiters        |-> limiters,
     is_level_closed |-> is_level_closed,
     config          |-> config,
     level_start     |-> level_start,
     submissions     |-> submissions]

\* the registry after this step is the one set_level(lv, now) leaves
Installed(lv, now) ==
    Game' = [global_scores   |-> add_level_scores(global_scores, level_scores),
             level_scores    |-> Scoreboard_new,
             current_level   |-> lv,
             limiters        |-> [u \in {} |-> u],
             is_level_closed |-> FALSE,
             config          |-> config,
             level_start     |-> now,
             submissions     |-> << >>]

\* the registry after this step is a new one (reset)
Renewed == Game' = PacmanGame_new(config)

\* the step touches what only the change of a level touches
LevelChanges ==
    \/ current_level' # current_level
    \/ level_start' # level_start
    \/ global_scores' # global_scores
    \/ DOMAIN limiters \ DOMAIN limiters' # {}
    \/ DOMAIN level_scores \ DOMAIN level_scores' # {}
    \/ Len(submissions') < Len(submissions)

\* a step that changes the level is a whole set_level at the time the
\* handler read, or a reset
C29_SetLevelStep ==
    LevelChanges => Renewed \/ \E lv \in RegLevels : Installed(lv, clock')

\* a step that changes the closed flag and is neither changes nothing else
C29_SetLevelStateStep ==
    is_level_closed' # is_level_closed =>
       \/ Renewed
       \/ \E lv \in RegLevels : Installed(lv, clock')
       \/ /\ Game' = [Game EXCEPT !.is_level_closed = ~is_level_closed]
          /\ UNCHANGED <<clock, poisoned>>

\* a submit by a user with no limiter is admitted by a limiter made from
\* the configuration, which holds this one timestamp
C29_SubmitStep ==
    \A u \in RegUsers :
       (u \notin DOMAIN limiters /\ submissions' # submissions
          /\ submissions' # << >> /\ submissions'[Len(submissions')].user = u) =>
             /\ response' = "Ok"
             /\ u \in DOMAIN limiters'
             /\ limiters'[u] = [max_submissions |-> config.rate_limit.count,
                                time_window     |-> config.rate_limit.window,
                                entries         |-> << clock' >>]

\* no limiter outlives its level: every timestamp a limiter holds is of
\* the level under way
C29_LimitersOfThisLevel ==
    \A u \in DOMAIN limiters :
       \A k \in 1..Len(limiters[u].entries) :
          limiters[u].entries[k] >= level_start

\* C29: set_level(level, now) installs the new level, sets is_level_closed
\* to false and level_start to now, and clears the level scoreboard, the
\* submission list and every per-user rate limiter, so that a custom limit
\* does not survive into the next level and the user's next submit makes a
\* limiter from the config defaults with no stored timestamps;
\* set_level_state changes only the closed flag.
C29_SetLevelClearsLevelState ==
    /\ []C29_LimitersOfThisLevel
    /\ [][C29_SetLevelStep /\ C29_SetLevelStateStep /\ C29_SubmitStep]_vars

\* a second level has just been installed at a later time: the scores of
\* the first are in the global scoreboard and nothing else is left of it
C29_Witness ==
    /\ response = "Ok"
    /\ current_level = GhostLevel
    /\ ~is_level_closed
    /\ level_start = MaxClock
    /\ clock = MaxClock
    /\ DOMAIN global_scores # {}
    /\ DOMAIN level_scores = {}
    /\ DOMAIN limiters = {}
    /\ submissions = << >>

(***************************************************************************)
(* Claims on SpecServer: the clock                                         *)
(***************************************************************************)
\* worker w has read the clock and not returned: a submit or a set_level
\* between its chrono::Utc::now() and the end of the method it calls
HasNow(w) ==
    /\ threads[w].request.op \in {"submit", "set_level"}
    /\ threads[w].pc \in {"call", "evaluate", "score", "push"}

\* the timestamps the limiter of user holds
EntriesOf(user) ==
    IF user \in DOMAIN limiters
    THEN {limiters[user].entries[i] : i \in 1..Len(limiters[user].entries)}
    ELSE {}

\* the now a handler passes to the registry is the latest reading of the
\* clock; no time in the registry is later, and no time penalty is negative
C31_NowIsLatest ==
    /\ \A w \in Workers : HasNow(w) => threads[w].now = clock
    /\ level_start <= clock
    /\ \A u \in DOMAIN limiters : \A t \in EntriesOf(u) : t <= clock
    /\ \A u \in DOMAIN level_scores : level_scores[u].time_penalty >= 0
    /\ \A u \in DOMAIN global_scores : global_scores[u].time_penalty >= 0

\* the clock never goes back; a limiter is given a time no earlier than
\* those it holds, the time penalty is computed from a now no earlier than
\* the level start, and set_level moves the level start forward only
C31_AppliedInOrder ==
    /\ clock' >= clock
    /\ \A w \in Workers :
          /\ At(w, "submit", "call") /\ threads'[w].pc # "call" =>
                \A t \in EntriesOf(threads[w].request.user) : t <= threads[w].now
          /\ At(w, "submit", "score") /\ threads'[w].pc # "score" =>
                threads[w].now - level_start >= 0
          /\ At(w, "set_level", "call") /\ threads'[w].pc # "call" =>
                /\ level_start' = threads[w].now
                /\ level_start' >= level_start

\* C31: the submit and set_level handlers read the clock only after they
\* have acquired the registry lock, so with a non-decreasing clock the now
\* values passed to submit_program and set_level are non-decreasing in the
\* order the operations are applied to the registry, for any interleaving
\* of concurrent handlers; hence every rate limiter sees non-decreasing
\* timestamps and time penalties (now - level_start) are never negative.
C31_ClockReadUnderLock == []C31_NowIsLatest /\ [][C31_AppliedInOrder]_vars

\* a submit that read the clock later than the level start is about to be
\* scored while the other worker, whose request came in meanwhile, waits
\* for the lock with a request that reads the clock too
C31_Witness ==
    \E w \in Workers, v \in Workers :
       /\ At(w, "submit", "score")
       /\ threads[w].now = MaxClock
       /\ level_start = 0
       /\ threads[v].pc = "lock"
       /\ threads[v].request.op \in {"submit", "set_level"}

(***************************************************************************)
(* Claims on SpecPoison: the poisoned lock stays poisoned                  *)
(***************************************************************************)
\* the handler of worker w returns in this step and its response goes out
Responds(w) == threads[w].pc = "return" /\ threads'[w] = IdleThread

\* the operations that call state.game.lock().unwrap()
Unwrapping ==
    {"submit", "get_submissions", "get_submission", "scoreboard", "set_level",
     "set_level_state", "rate_limit"}

\* C32 as stated: once a handler has aborted holding the lock, every later
\* request other than a reset aborts without returning a result: the only
\* responses that go out are aborts and those of reset.
C32_EveryRequestAborts ==
    [][poisoned =>
          \/ response' = response
          \/ response' = "Aborted"
          \/ \E w \in Workers : Responds(w) /\ threads[w].request.op = "reset"]_vars

\* on a poisoned lock no handler but reset is past state.game.lock()
C32_NoneButResetInside ==
    poisoned =>
       \A w \in Workers :
          threads[w].pc \notin {"idle", "lock"} => threads[w].request.op = "reset"

\* the lock stays poisoned, through a reset too; each of the seven
\* handlers that unwrap the lock result goes from the lock to nothing, with
\* no response of its own and the registry untouched; what is answered
\* otherwise is reset's response or a refusal made before the lock
C32_OnceAndForAll ==
    poisoned =>
       /\ poisoned'
       /\ \A w \in Workers :
             /\ Locks(w) /\ threads[w].request.op \in Unwrapping =>
                   /\ threads'[w] = IdleThread
                   /\ response' = "Aborted"
                   /\ UNCHANGED <<gameVars, lock>>
             /\ Locks(w) => threads[w].request.op \in Unwrapping \cup {"reset"}
             /\ Responds(w) =>
                   /\ threads[w].request.op = "reset"
                   /\ response' = "Ok"
       /\ response' # response =>
             \/ response' = "Aborted"
             \/ \E w \in Workers : Responds(w)
             \/ /\ response' \in {"Unauthorized", "NotFound"}
                /\ UNCHANGED <<gameVars, threads, lock, history>>

\* C32: lock poisoning is permanent for every operation except reset: once
\* a handler has aborted while holding the registry lock, every later
\* submit, submissions, submission-details, scoreboard, set-level,
\* set-level-state and rate-limit request that gets as far as the lock
\* aborts without returning a result, also after a successful reset, which
\* replaces the registry and leaves the lock poisoned; a request that its
\* handler refuses before the lock (wrong password, wrong admin token,
\* unknown user) is still answered.
C32_PoisonIsPermanent == []C32_NoneButResetInside /\ [][C32_OnceAndForAll]_vars

\* a reset has gone through on the poisoned lock, and the set_level that
\* came to the lock after it (a handler with nothing in it that panics)
\* was aborted: the registry is still the new one of the reset
C32_Witness ==
    /\ poisoned
    /\ response = "Aborted"
    /\ \A w \in Workers : threads[w].pc = "idle"
    /\ Len(history) >= 3
    /\ history[Len(history)].event = "lock"
    /\ history[Len(history)].op = "set_level"
    /\ history[Len(history) - 1].event = "clear"
    /\ history[Len(history) - 1].op = "reset"
    /\ GameIs(PacmanGame_new(config))

=============================================================================
